---- MODULE Spec2Model ----
(***************************************************************************)
(* Model of the lookup core of the bot: the per-user sliding-window rate   *)
(* limiter (bot_handlers.py), the /trace and /vehicle command handlers,    *)
(* and the phone-tracing and vehicle-lookup services (tracing_services.py, *)
(* utils.py).  Strings are sequences of one-character strings.             *)
(*                                                                         *)
(* SpecRate     calls of _check_rate_limit as time passes                  *)
(* SpecTrace    one call of trace_phone_number, with its executor job      *)
(* SpecBot      handler coroutines dispatched concurrently, interleaving   *)
(*              at their awaits                                            *)
(* SpecDispatch the rate-limited handlers (/start, /trace, /vehicle and     *)
(*              photo messages) under the application's dispatch as        *)
(*              main.py sets it up (one update at a time)                  *)
(* SpecPure     the validators, lookup_vehicle_info and the two local      *)
(*              tracing strategies applied to bounded sets of strings      *)
(***************************************************************************)
EXTENDS Integers, Sequences, FiniteSets, TLC

\* ---------------------------------------------------------------- bounds
MaxTime == 5          \* the clock runs over 0..MaxTime in SpecRate
MaxBotTime == 1       \* the clock runs over 0..MaxBotTime in SpecBot
MaxChecks == 4        \* admission checks made in one behaviour of SpecRate
MaxRequests == 2      \* RATE_LIMIT_REQUESTS is read from 0..MaxRequests
MaxWindow == 2        \* RATE_LIMIT_WINDOW is read from 0..MaxWindow
NumUsers == 2         \* user ids are 1..NumUsers
NumHandlers == 2      \* handler invocations in one behaviour of SpecBot
MaxNodes == 3         \* strings in a small response document
MaxDigits == 16       \* digits in a phone string given to the validator

UserIds == 1 .. NumUsers

VARIABLES
  now,           \* datetime.now(), in ticks of one second
  config,        \* Config: RATE_LIMIT_REQUESTS, RATE_LIMIT_WINDOW
  rate_limiter,  \* BotHandlers.rate_limiter: user_key -> list of timestamps
  log,           \* history: user_key -> the checks made, <<[t, allowed], ...>>
  lastCheck,     \* history: the last check, with the window it found
  call,          \* one call of trace_phone_number
  hs             \* the running command handlers

rateVars == <<now, config, rate_limiter, log, lastCheck>>
vars == <<now, config, rate_limiter, log, lastCheck, call, hs>>

\* ------------------------------------------------------------------ strings
\* A Python str is a sequence of one-character strings.
Digits == {"0", "1", "2", "3", "4", "5", "6", "7", "8", "9"}

\* a decimal digit outside ASCII (ARABIC-INDIC DIGIT THREE): re's \d on a
\* str pattern matches every Unicode decimal digit
UnicodeDigits == {"u0663"}

UpperLetters == {"A", "B", "C", "D", "E", "F", "G", "H", "I", "J", "K", "L", "M",
                 "N", "O", "P", "Q", "R", "S", "T", "U", "V", "W", "X", "Y", "Z"}

LowerSeq == <<"a", "b", "c", "d", "e", "f", "g", "h", "i", "j", "k", "l", "m",
              "n", "o", "p", "q", "r", "s", "t", "u", "v", "w", "x", "y", "z">>

UpperSeq == <<"A", "B", "C", "D", "E", "F", "G", "H", "I", "J", "K", "L", "M",
              "N", "O", "P", "Q", "R", "S", "T", "U", "V", "W", "X", "Y", "Z">>

\* \d of the re module
IsDigit(c) == c \in Digits \cup UnicodeDigits

\* [A-Z] of the re module
IsUpperLetter(c) == c \in UpperLetters

\* str.upper(), character by character
UpperChar(c) ==
  IF \E i \in DOMAIN LowerSeq : LowerSeq[i] = c
    THEN UpperSeq[CHOOSE i \in DOMAIN LowerSeq : LowerSeq[i] = c]
    ELSE c

upper(s) == [i \in DOMAIN s |-> UpperChar(s[i])]

\* str.startswith / str.endswith
startswith(s, p) == Len(s) >= Len(p) /\ SubSeq(s, 1, Len(p)) = p

endswith(s, p) == Len(s) >= Len(p) /\ SubSeq(s, Len(s) - Len(p) + 1, Len(s)) = p

\* str.replace(old, ''): every occurrence of old, left to right, is removed
RECURSIVE remove(_, _)
remove(s, old) ==
  IF Len(s) < Len(old) \/ old = <<>> THEN s
  ELSE IF startswith(s, old) THEN remove(SubSeq(s, Len(old) + 1, Len(s)), old)
  ELSE <<Head(s)>> \o remove(Tail(s), old)

\* \d{...} and [A-Z]{...} over a whole string
AllDigits(s) == \A i \in DOMAIN s : IsDigit(s[i])

AllUpperLetters(s) == \A i \in DOMAIN s : IsUpperLetter(s[i])

\* re.match('^...$', s): $ matches at the end and before a final newline,
\* so the pattern's body has to match s or s without its final newline
ToDollar(s) ==
  {s} \cup IF Len(s) > 0 /\ s[Len(s)] = "\n" THEN {SubSeq(s, 1, Len(s) - 1)} ELSE {}

\* the string literals of the services
Literal ==
  [NA |-> <<"N", "/", "A">>,
   India |-> <<"I", "n", "d", "i", "a">>,
   Mobile |-> <<"M", "o", "b", "i", "l", "e">>,
   US_Canada |-> <<"U", "n", "i", "t", "e", "d", " ", "S", "t", "a", "t", "e", "s", "/", "C", "a", "n", "a", "d", "a">>,
   Mobile_Landline |-> <<"M", "o", "b", "i", "l", "e", "/", "L", "a", "n", "d", "l", "i", "n", "e">>,
   UK |-> <<"U", "n", "i", "t", "e", "d", " ", "K", "i", "n", "g", "d", "o", "m">>,
   Unknown |-> <<"U", "n", "k", "n", "o", "w", "n">>,
   Unknown_Region |-> <<"U", "n", "k", "n", "o", "w", "n", " ", "R", "e", "g", "i", "o", "n">>,
   North_West |-> <<"N", "o", "r", "t", "h", "e", "r", "n", "/", "W", "e", "s", "t", "e", "r", "n", " ", "I", "n", "d", "i", "a">>,
   East_South |-> <<"E", "a", "s", "t", "e", "r", "n", "/", "S", "o", "u", "t", "h", "e", "r", "n", " ", "I", "n", "d", "i", "a">>,
   Central_West |-> <<"C", "e", "n", "t", "r", "a", "l", "/", "W", "e", "s", "t", "e", "r", "n", " ", "I", "n", "d", "i", "a">>,
   East |-> <<"E", "a", "s", "t", "e", "r", "n", " ", "I", "n", "d", "i", "a">>,
   International |-> <<"I", "n", "t", "e", "r", "n", "a", "t", "i", "o", "n", "a", "l">>,
   Local |-> <<"L", "o", "c", "a", "l">>,
   Valid_Length |-> <<"V", "a", "l", "i", "d", " ", "L", "e", "n", "g", "t", "h">>,
   Invalid_Length |-> <<"I", "n", "v", "a", "l", "i", "d", " ", "L", "e", "n", "g", "t", "h">>,
   Fake |-> <<"P", "o", "s", "s", "i", "b", "l", "y", " ", "F", "a", "k", "e", "/", "T", "e", "s", "t", " ", "N", "u", "m", "b", "e", "r">>,
   Regular |-> <<"R", "e", "g", "u", "l", "a", "r", " ", "N", "u", "m", "b", "e", "r">>,
   Unknown_State |-> <<"U", "n", "k", "n", "o", "w", "n", " ", "S", "t", "a", "t", "e">>,
   Unknown_RTO |-> <<"U", "n", "k", "n", "o", "w", "n", " ", "R", "T", "O">>,
   Private_Old |-> <<"P", "r", "i", "v", "a", "t", "e", " ", "V", "e", "h", "i", "c", "l", "e", " ", "(", "O", "l", "d", " ", "F", "o", "r", "m", "a", "t", ")">>,
   Private |-> <<"P", "r", "i", "v", "a", "t", "e", " ", "V", "e", "h", "i", "c", "l", "e">>,
   Taxi |-> <<"T", "a", "x", "i", "/", "C", "o", "m", "m", "e", "r", "c", "i", "a", "l">>,
   Two_Wheeler |-> <<"T", "w", "o", " ", "W", "h", "e", "e", "l", "e", "r">>,
   Special |-> <<"S", "p", "e", "c", "i", "a", "l", " ", "V", "e", "h", "i", "c", "l", "e">>,
   Before_2005 |-> <<"B", "e", "f", "o", "r", "e", " ", "2", "0", "0", "5", " ", "(", "E", "s", "t", "i", "m", "a", "t", "e", "d", ")">>,
   Y2005_2010 |-> <<"2", "0", "0", "5", "-", "2", "0", "1", "0", " ", "(", "E", "s", "t", "i", "m", "a", "t", "e", "d", ")">>,
   Y2010_2015 |-> <<"2", "0", "1", "0", "-", "2", "0", "1", "5", " ", "(", "E", "s", "t", "i", "m", "a", "t", "e", "d", ")">>,
   After_2015 |-> <<"A", "f", "t", "e", "r", " ", "2", "0", "1", "5", " ", "(", "E", "s", "t", "i", "m", "a", "t", "e", "d", ")">>]

\* --------------------------------------------------------------- validators
\* mutant: only a '+' that comes before every digit and every other '+' is
\* kept, a later one is removed
RECURSIVE StripLaterPlus(_, _)
StripLaterPlus(s, seen) ==
  IF s = <<>> THEN <<>>
  ELSE IF IsDigit(Head(s)) THEN <<Head(s)>> \o StripLaterPlus(Tail(s), TRUE)
  ELSE IF Head(s) = "+" /\ ~seen THEN <<"+">> \o StripLaterPlus(Tail(s), TRUE)
  ELSE StripLaterPlus(Tail(s), seen)

clean_phone_LeadingPlusOnly(s) == StripLaterPlus(s, FALSE)

\* re.sub(r'[^\d+]', '', s): every character that is neither a digit nor a
\* '+' is removed ('+' is kept wherever it stands)
clean_phone(s) ==
  LET Keep(c) == IsDigit(c) \/ c = "+"
  IN SelectSeq(s, Keep)

\* r'^\+\d{10,15}$'
PhoneInternational(s) ==
  \E x \in ToDollar(s) :
    /\ Len(x) >= 1
    /\ x[1] = "+"
    /\ Len(x) - 1 >= 10
    /\ Len(x) - 1 <= 15
    /\ AllDigits(Tail(x))

\* r'^\d{n}$'
PhoneBare(s, n) ==
  \E x \in ToDollar(s) : Len(x) = n /\ AllDigits(x)

\* r'^\+91\d{10}$' and r'^\+1\d{10}$': a literal prefix and ten digits
PhonePrefixed(s, prefix) ==
  \E x \in ToDollar(s) :
    /\ startswith(x, prefix)
    /\ Len(x) = Len(prefix) + 10
    /\ AllDigits(SubSeq(x, Len(prefix) + 1, Len(x)))

\* utils.validate_phone_number
validate_phone_number(phone_number) ==
  IF phone_number = <<>> THEN FALSE
  ELSE LET cleaned == clean_phone(phone_number)
       IN \/ PhoneInternational(cleaned)
          \/ PhoneBare(cleaned, 10)
          \/ PhoneBare(cleaned, 11)
          \/ PhonePrefixed(cleaned, <<"+", "9", "1">>)
          \/ PhonePrefixed(cleaned, <<"+", "1">>)

\* vehicle_number.upper().replace(' ', '').replace('-', '')
clean_vehicle(s) == remove(remove(upper(s), <<" ">>), <<"-">>)

\* the groups of r'^([A-Z]{2})(\d{dlo,dhi})([A-Z]{1,2})(\d{nlo,nhi})$' on a
\* string matched to its end: letters and digits alternate, so at most one
\* split of the string fits
VehicleSplits(x, dlo, dhi, nlo, nhi) ==
  {sp \in (dlo .. dhi) \X (1 .. 2) \X (nlo .. nhi) :
     /\ Len(x) = 2 + sp[1] + sp[2] + sp[3]
     /\ AllUpperLetters(SubSeq(x, 1, 2))
     /\ AllDigits(SubSeq(x, 3, 2 + sp[1]))
     /\ AllUpperLetters(SubSeq(x, 3 + sp[1], 2 + sp[1] + sp[2]))
     /\ AllDigits(SubSeq(x, 3 + sp[1] + sp[2], Len(x)))}

NoMatch == [matched |-> FALSE]

\* re.match(pattern, s) for the vehicle patterns: the match object's groups
VehicleMatch(s, dlo, dhi, nlo, nhi) ==
  LET Groups(x) ==
        LET sp == CHOOSE p \in VehicleSplits(x, dlo, dhi, nlo, nhi) : TRUE
        IN [matched |-> TRUE,
            g1 |-> SubSeq(x, 1, 2),
            g2 |-> SubSeq(x, 3, 2 + sp[1]),
            g3 |-> SubSeq(x, 3 + sp[1], 2 + sp[1] + sp[2]),
            g4 |-> SubSeq(x, 3 + sp[1] + sp[2], Len(x))]
      body == SubSeq(s, 1, Len(s) - 1)
  IN IF VehicleSplits(s, dlo, dhi, nlo, nhi) # {} THEN Groups(s)
     ELSE IF Len(s) > 0 /\ s[Len(s)] = "\n" /\ VehicleSplits(body, dlo, dhi, nlo, nhi) # {}
       THEN Groups(body)
     ELSE NoMatch

\* mutant: only the pattern with a two-digit district is tried
validate_vehicle_number_StandardOnly(vehicle_number) ==
  IF vehicle_number = <<>> THEN FALSE
  ELSE LET cleaned == clean_vehicle(vehicle_number)
       IN VehicleMatch(cleaned, 2, 2, 1, 4).matched

\* utils.validate_vehicle_number
validate_vehicle_number(vehicle_number) ==
  IF vehicle_number = <<>> THEN FALSE
  ELSE LET cleaned == clean_vehicle(vehicle_number)
       IN \/ VehicleMatch(cleaned, 2, 2, 1, 4).matched
          \/ VehicleMatch(cleaned, 1, 2, 1, 4).matched

\* ------------------------------------------------------------ phone tracing
\* Returned values: a dict is [kind |-> "dict", value |-> function from the
\* key's label to a string], a message is [kind |-> "str", value |-> name].
\* The keys are named by their label (the emoji prefix is left out).
Dict(d) == [kind |-> "dict", value |-> d]

Message(m) == [kind |-> "str", value |-> m]

Return(v) == [kind |-> "return", value |-> v]

Raise == [kind |-> "raise"]

\* the fields list of _parse_calltracer_response: <<display name, search text>>
fields ==
  << <<"Complaints", "Complaints">>, <<"Owner Name", "Owner Name">>,
     <<"SIM Card", "SIM card">>, <<"Mobile State", "Mobile State">>,
     <<"IMEI Number", "IMEI number">>, <<"MAC Address", "MAC address">>,
     <<"Connection", "Connection">>, <<"IP Address", "IP address">>,
     <<"Owner Address", "Owner Address">>, <<"Hometown", "Hometown">>,
     <<"Reference City", "Refrence City">>,
     <<"Owner Personality", "Owner Personality">>, <<"Language", "Language">>,
     <<"Mobile Locations", "Mobile Locations">>, <<"Country", "Country">>,
     <<"Tracking History", "Tracking History">>, <<"Tracker ID", "Tracker Id">>,
     <<"Tower Locations", "Tower Locations">> >>

DisplayNames == {fields[i][1] : i \in DOMAIN fields}

SearchTexts == {fields[i][2] : i \in DOMAIN fields}

\* \s and \w of the re module, on the characters of the model
IsSpace(c) == c \in {" ", "\n", "\t"}

IsWord(c) ==
  \/ IsDigit(c)
  \/ c \in UpperLetters
  \/ c \in {LowerSeq[i] : i \in DOMAIN LowerSeq}
  \/ c = "_"

\* str.strip()
RECURSIVE lstrip(_)
lstrip(s) == IF s # <<>> /\ IsSpace(Head(s)) THEN lstrip(Tail(s)) ELSE s

RECURSIVE rstrip(_)
rstrip(s) ==
  IF s # <<>> /\ IsSpace(s[Len(s)]) THEN rstrip(SubSeq(s, 1, Len(s) - 1)) ELSE s

strip(s) == rstrip(lstrip(s))

\* re.sub(r'\s+', ' ', s)
RECURSIVE collapse_spaces(_)
collapse_spaces(s) ==
  IF s = <<>> THEN <<>>
  ELSE IF IsSpace(Head(s)) THEN <<" ">> \o collapse_spaces(lstrip(s))
  ELSE <<Head(s)>> \o collapse_spaces(Tail(s))

\* utils.clean_text
clean_text(text) ==
  IF text = <<>> THEN Literal.NA
  ELSE LET Keep(c) == IsWord(c) \/ IsSpace(c) \/ c \in {"-", ".", ",", "(", ")", "@", "+", ":"}
           t == SelectSeq(collapse_spaces(strip(text)), Keep)
       IN IF t # <<>> THEN t ELSE Literal.NA

\* The parsed response (soup) is the sequence of its strings in document
\* order.  A node is a string: tag tells whether it is the text of a td
\* element ("td"), a string outside any td ("text"), or a string on which
\* the extraction raises ("raises"); label is the search text the string is
\* equal to ("none" when it is none of them); text is its characters.
Node(tag, label, text) == [tag |-> tag, label |-> label, text |-> text]

\* soup.find(string=search_text): the first string equal to search_text
\* (0 stands for None)
find(soup, search_text) ==
  IF \E i \in DOMAIN soup : soup[i].label = search_text
    THEN CHOOSE i \in DOMAIN soup :
           /\ soup[i].label = search_text
           /\ \A j \in 1 .. (i - 1) : soup[j].label # search_text
    ELSE 0

\* element.find_next("td"): the first td element after the string, wherever
\* in the rest of the document it is (0 stands for None)
find_next_td(soup, i) ==
  IF \E j \in DOMAIN soup : j > i /\ soup[j].tag = "td"
    THEN CHOOSE j \in DOMAIN soup :
           /\ j > i /\ soup[j].tag = "td"
           /\ \A m \in (i + 1) .. (j - 1) : soup[m].tag # "td"
    ELSE 0

\* mutant: a label that is not found gets no entry
_parse_calltracer_response_OmitAbsent(soup, phone_number) ==
  [k \in {"Number"} \cup {fields[j][1] : j \in {m \in DOMAIN fields : find(soup, fields[m][2]) # 0}} |->
     IF k = "Number" THEN phone_number ELSE Literal.NA]

\* TracingService._parse_calltracer_response
_parse_calltracer_response(soup, phone_number) ==
  [k \in {"Number"} \cup DisplayNames |->
     IF k = "Number" THEN phone_number
     ELSE LET search_text == fields[CHOOSE j \in DOMAIN fields : fields[j][1] = k][2]
              element == find(soup, search_text)
              value == find_next_td(soup, element)
          IN IF element = 0 THEN Literal.NA
             ELSE IF soup[element].tag = "raises" THEN Literal.NA
             ELSE IF value = 0 THEN Literal.NA
             ELSE clean_text(soup[value].text)]

\* TracingService._trace_calltracer, resumed with the outcome net of
\* session.post: [kind |-> "response", status_code, body] or
\* [kind |-> "exception"] (timeout, connection error)
_trace_calltracer(phone_number, net) ==
  IF net.kind = "exception" THEN Raise
  ELSE IF net.status_code = 200
    THEN Return(Dict(_parse_calltracer_response(net.body, phone_number)))
  ELSE Return(Message("Request failed with status code"))

\* mutant: the country code is not removed before the leading digit is read
_get_indian_region_KeepPrefix(phone_number) ==
  LET number == remove(phone_number, <<" ">>)
  IN IF Len(number) >= 10 /\ number[1] = "9" THEN Literal.North_West
     ELSE IF Len(number) >= 10 /\ number[1] = "8" THEN Literal.East_South
     ELSE IF Len(number) >= 10 /\ number[1] = "7" THEN Literal.Central_West
     ELSE IF Len(number) >= 10 /\ number[1] = "6" THEN Literal.East
     ELSE Literal.Unknown_Region

\* TracingService._get_indian_region
_get_indian_region(phone_number) ==
  LET number == remove(remove(phone_number, <<"+", "9", "1">>), <<" ">>)
  IN IF Len(number) >= 10 /\ number[1] = "9" THEN Literal.North_West
     ELSE IF Len(number) >= 10 /\ number[1] = "8" THEN Literal.East_South
     ELSE IF Len(number) >= 10 /\ number[1] = "7" THEN Literal.Central_West
     ELSE IF Len(number) >= 10 /\ number[1] = "6" THEN Literal.East
     ELSE Literal.Unknown_Region

\* mutant: a number of no known country makes the heuristic raise
_trace_truecaller_info_RaisesOnUnknown(phone_number) ==
  IF \/ startswith(phone_number, <<"+", "9", "1">>)
     \/ /\ Len(phone_number) = 10
        /\ \E d \in {"6", "7", "8", "9"} : startswith(phone_number, <<d>>)
    THEN Return(Dict([k \in {"Number", "Country", "Region", "Network Type"} |->
           CASE k = "Number" -> phone_number
             [] k = "Country" -> Literal.India
             [] k = "Region" -> _get_indian_region(phone_number)
             [] k = "Network Type" -> Literal.Mobile]))
  ELSE IF startswith(phone_number, <<"+", "1">>) \/ startswith(phone_number, <<"+", "4", "4">>)
    THEN Return(Dict([k \in {"Number", "Country", "Network Type"} |->
           CASE k = "Number" -> phone_number
             [] k = "Country" ->
                  IF startswith(phone_number, <<"+", "1">>) THEN Literal.US_Canada ELSE Literal.UK
             [] k = "Network Type" -> Literal.Mobile_Landline]))
  ELSE Raise

\* TracingService._trace_truecaller_info
_trace_truecaller_info(phone_number) ==
  IF \/ startswith(phone_number, <<"+", "9", "1">>)
     \/ /\ Len(phone_number) = 10
        /\ \E d \in {"6", "7", "8", "9"} : startswith(phone_number, <<d>>)
    THEN Return(Dict([k \in {"Number", "Country", "Region", "Network Type"} |->
           CASE k = "Number" -> phone_number
             [] k = "Country" -> Literal.India
             [] k = "Region" -> _get_indian_region(phone_number)
             [] k = "Network Type" -> Literal.Mobile]))
  ELSE Return(Dict([k \in {"Number", "Country", "Network Type"} |->
           CASE k = "Number" -> phone_number
             [] k = "Country" ->
                  IF startswith(phone_number, <<"+", "1">>) THEN Literal.US_Canada
                  ELSE IF startswith(phone_number, <<"+", "4", "4">>) THEN Literal.UK
                  ELSE Literal.Unknown
             [] k = "Network Type" ->
                  IF startswith(phone_number, <<"+", "1">>) THEN Literal.Mobile_Landline
                  ELSE IF startswith(phone_number, <<"+", "4", "4">>) THEN Literal.Mobile_Landline
                  ELSE Literal.Unknown]))

\* mutant: any number ending in four equal characters is flagged
_trace_basic_info_RepeatedDigits(phone_number) ==
  Return(Dict([k \in {"Number", "Format", "Validity", "Type"} |->
    CASE k = "Number" -> phone_number
      [] k = "Format" ->
           IF startswith(phone_number, <<"+">>) THEN Literal.International ELSE Literal.Local
      [] k = "Validity" ->
           IF Len(remove(remove(phone_number, <<"+">>), <<" ">>)) >= 10
             THEN Literal.Valid_Length ELSE Literal.Invalid_Length
      [] k = "Type" ->
           IF \E c \in Digits : endswith(phone_number, <<c, c, c, c>>)
             THEN Literal.Fake ELSE Literal.Regular]))

\* mutant: the length is taken with the '+' counted
_trace_basic_info_LengthWithPlus(phone_number) ==
  Return(Dict([k \in {"Number", "Format", "Validity", "Type"} |->
    CASE k = "Number" -> phone_number
      [] k = "Format" ->
           IF startswith(phone_number, <<"+">>) THEN Literal.International ELSE Literal.Local
      [] k = "Validity" ->
           IF Len(phone_number) >= 10 THEN Literal.Valid_Length ELSE Literal.Invalid_Length
      [] k = "Type" ->
           IF \E suffix \in {<<"0", "0", "0", "0">>, <<"1", "1", "1", "1">>,
                             <<"2", "2", "2", "2">>} : endswith(phone_number, suffix)
             THEN Literal.Fake ELSE Literal.Regular]))

\* TracingService._trace_basic_info
_trace_basic_info(phone_number) ==
  Return(Dict([k \in {"Number", "Format", "Validity", "Type"} |->
    CASE k = "Number" -> phone_number
      [] k = "Format" ->
           IF startswith(phone_number, <<"+">>) THEN Literal.International ELSE Literal.Local
      [] k = "Validity" ->
           IF Len(remove(remove(phone_number, <<"+">>), <<" ">>)) >= 10
             THEN Literal.Valid_Length ELSE Literal.Invalid_Length
      [] k = "Type" ->
           IF \E suffix \in {<<"0", "0", "0", "0">>, <<"1", "1", "1", "1">>,
                             <<"2", "2", "2", "2">>} : endswith(phone_number, suffix)
             THEN Literal.Fake ELSE Literal.Regular]))

\* mutant: the local heuristic is tried before the remote lookup
methods_HeuristicFirst ==
  <<"_trace_truecaller_info", "_trace_calltracer", "_trace_basic_info">>

\* the methods list of trace_phone_number
methods == <<"_trace_calltracer", "_trace_truecaller_info", "_trace_basic_info">>

\* result = await method(cleaned_number)
CallMethod(method, cleaned_number, net) ==
  CASE method = "_trace_calltracer" -> _trace_calltracer(cleaned_number, net)
    [] method = "_trace_truecaller_info" -> _trace_truecaller_info(cleaned_number)
    [] method = "_trace_basic_info" -> _trace_basic_info(cleaned_number)

\* mutant: a mapping whose labelled fields are all "N/A" is not usable
Usable_SomeFieldFound(outcome) ==
  /\ outcome.kind = "return"
  /\ outcome.value.kind = "dict"
  /\ \E k \in DOMAIN outcome.value.value \ {"Number"} : outcome.value.value[k] # Literal.NA

\* isinstance(result, dict) and result
Usable(outcome) ==
  /\ outcome.kind = "return"
  /\ outcome.value.kind = "dict"
  /\ DOMAIN outcome.value.value # {}

Unable == Message("Unable to trace this phone number")

\* mutant: a strategy that raises ends the loop (break instead of continue)
RECURSIVE TraceLoop_BreakOnRaise(_, _, _, _)
TraceLoop_BreakOnRaise(i, cleaned_number, net, tried) ==
  IF i > Len(methods) THEN [result |-> Unable, tried |-> tried]
  ELSE LET outcome == CallMethod(methods[i], cleaned_number, net)
           tried1 == Append(tried, methods[i])
       IN IF Usable(outcome) THEN [result |-> outcome.value, tried |-> tried1]
          ELSE IF outcome.kind = "raise" THEN [result |-> Unable, tried |-> tried1]
          ELSE TraceLoop_BreakOnRaise(i + 1, cleaned_number, net, tried1)

\* the for loop of trace_phone_number from methods[i] on: the value returned
\* and the methods called, in order (net is the outcome of the remote call)
RECURSIVE TraceLoop(_, _, _, _)
TraceLoop(i, cleaned_number, net, tried) ==
  IF i > Len(methods) THEN [result |-> Unable, tried |-> tried]
  ELSE LET outcome == CallMethod(methods[i], cleaned_number, net)
           tried1 == Append(tried, methods[i])
       IN IF Usable(outcome) THEN [result |-> outcome.value, tried |-> tried1]
          ELSE TraceLoop(i + 1, cleaned_number, net, tried1)

\* ----------------------------------------------------------- vehicle lookup
\* TracingService.state_codes
state_codes ==
  (<<"A", "P">> :> <<"A", "n", "d", "h", "r", "a", " ", "P", "r", "a", "d", "e", "s", "h">>)
  @@ (<<"A", "R">> :> <<"A", "r", "u", "n", "a", "c", "h", "a", "l", " ", "P", "r", "a", "d", "e", "s", "h">>)
  @@ (<<"A", "S">> :> <<"A", "s", "s", "a", "m">>)
  @@ (<<"B", "R">> :> <<"B", "i", "h", "a", "r">>)
  @@ (<<"C", "G">> :> <<"C", "h", "h", "a", "t", "t", "i", "s", "g", "a", "r", "h">>)
  @@ (<<"G", "A">> :> <<"G", "o", "a">>)
  @@ (<<"G", "J">> :> <<"G", "u", "j", "a", "r", "a", "t">>)
  @@ (<<"H", "R">> :> <<"H", "a", "r", "y", "a", "n", "a">>)
  @@ (<<"H", "P">> :> <<"H", "i", "m", "a", "c", "h", "a", "l", " ", "P", "r", "a", "d", "e", "s", "h">>)
  @@ (<<"J", "H">> :> <<"J", "h", "a", "r", "k", "h", "a", "n", "d">>)
  @@ (<<"K", "A">> :> <<"K", "a", "r", "n", "a", "t", "a", "k", "a">>)
  @@ (<<"K", "L">> :> <<"K", "e", "r", "a", "l", "a">>)
  @@ (<<"M", "P">> :> <<"M", "a", "d", "h", "y", "a", " ", "P", "r", "a", "d", "e", "s", "h">>)
  @@ (<<"M", "H">> :> <<"M", "a", "h", "a", "r", "a", "s", "h", "t", "r", "a">>)
  @@ (<<"M", "N">> :> <<"M", "a", "n", "i", "p", "u", "r">>)
  @@ (<<"M", "L">> :> <<"M", "e", "g", "h", "a", "l", "a", "y", "a">>)
  @@ (<<"M", "Z">> :> <<"M", "i", "z", "o", "r", "a", "m">>)
  @@ (<<"N", "L">> :> <<"N", "a", "g", "a", "l", "a", "n", "d">>)
  @@ (<<"O", "D">> :> <<"O", "d", "i", "s", "h", "a">>)
  @@ (<<"P", "B">> :> <<"P", "u", "n", "j", "a", "b">>)
  @@ (<<"R", "J">> :> <<"R", "a", "j", "a", "s", "t", "h", "a", "n">>)
  @@ (<<"S", "K">> :> <<"S", "i", "k", "k", "i", "m">>)
  @@ (<<"T", "N">> :> <<"T", "a", "m", "i", "l", " ", "N", "a", "d", "u">>)
  @@ (<<"T", "G">> :> <<"T", "e", "l", "a", "n", "g", "a", "n", "a">>)
  @@ (<<"T", "R">> :> <<"T", "r", "i", "p", "u", "r", "a">>)
  @@ (<<"U", "K">> :> <<"U", "t", "t", "a", "r", "a", "k", "h", "a", "n", "d">>)
  @@ (<<"U", "P">> :> <<"U", "t", "t", "a", "r", " ", "P", "r", "a", "d", "e", "s", "h">>)
  @@ (<<"W", "B">> :> <<"W", "e", "s", "t", " ", "B", "e", "n", "g", "a", "l">>)
  @@ (<<"A", "N">> :> <<"A", "n", "d", "a", "m", "a", "n", " ", "&", " ", "N", "i", "c", "o", "b", "a", "r", " ", "I", "s", "l", "a", "n", "d", "s">>)
  @@ (<<"C", "H">> :> <<"C", "h", "a", "n", "d", "i", "g", "a", "r", "h">>)
  @@ (<<"D", "H">> :> <<"D", "a", "d", "r", "a", " ", "&", " ", "N", "a", "g", "a", "r", " ", "H", "a", "v", "e", "l", "i">>)
  @@ (<<"D", "D">> :> <<"D", "a", "m", "a", "n", " ", "&", " ", "D", "i", "u">>)
  @@ (<<"D", "L">> :> <<"D", "e", "l", "h", "i">>)
  @@ (<<"L", "D">> :> <<"L", "a", "k", "s", "h", "a", "d", "w", "e", "e", "p">>)
  @@ (<<"P", "Y">> :> <<"P", "u", "d", "u", "c", "h", "e", "r", "r", "y">>)

\* TracingService.rto_offices
rto_offices ==
  (<<"M", "H", "0", "1">> :> <<"M", "u", "m", "b", "a", "i", " ", "C", "e", "n", "t", "r", "a", "l", " ", "R", "T", "O">>)
  @@ (<<"M", "H", "0", "2">> :> <<"M", "u", "m", "b", "a", "i", " ", "W", "e", "s", "t", " ", "R", "T", "O">>)
  @@ (<<"M", "H", "0", "3">> :> <<"M", "u", "m", "b", "a", "i", " ", "E", "a", "s", "t", " ", "R", "T", "O">>)
  @@ (<<"M", "H", "0", "4">> :> <<"M", "u", "m", "b", "a", "i", " ", "S", "o", "u", "t", "h", " ", "R", "T", "O">>)
  @@ (<<"M", "H", "0", "5">> :> <<"T", "h", "a", "n", "e", " ", "R", "T", "O">>)
  @@ (<<"M", "H", "0", "6">> :> <<"R", "a", "i", "g", "a", "d", " ", "R", "T", "O">>)
  @@ (<<"M", "H", "0", "7">> :> <<"R", "a", "t", "n", "a", "g", "i", "r", "i", " ", "R", "T", "O">>)
  @@ (<<"M", "H", "0", "8">> :> <<"K", "o", "l", "h", "a", "p", "u", "r", " ", "R", "T", "O">>)
  @@ (<<"M", "H", "0", "9">> :> <<"P", "u", "n", "e", " ", "R", "T", "O">>)
  @@ (<<"M", "H", "1", "0">> :> <<"S", "a", "n", "g", "l", "i", " ", "R", "T", "O">>)
  @@ (<<"M", "H", "1", "1">> :> <<"S", "o", "l", "a", "p", "u", "r", " ", "R", "T", "O">>)
  @@ (<<"M", "H", "1", "2">> :> <<"A", "u", "r", "a", "n", "g", "a", "b", "a", "d", " ", "R", "T", "O">>)
  @@ (<<"M", "H", "1", "3">> :> <<"N", "a", "s", "h", "i", "k", " ", "R", "T", "O">>)
  @@ (<<"M", "H", "1", "4">> :> <<"D", "h", "u", "l", "e", " ", "R", "T", "O">>)
  @@ (<<"M", "H", "1", "5">> :> <<"J", "a", "l", "g", "a", "o", "n", " ", "R", "T", "O">>)
  @@ (<<"M", "H", "1", "6">> :> <<"N", "a", "g", "p", "u", "r", " ", "C", "e", "n", "t", "r", "a", "l", " ", "R", "T", "O">>)
  @@ (<<"M", "H", "1", "7">> :> <<"N", "a", "g", "p", "u", "r", " ", "E", "a", "s", "t", " ", "R", "T", "O">>)
  @@ (<<"M", "H", "1", "8">> :> <<"B", "h", "a", "n", "d", "a", "r", "a", " ", "R", "T", "O">>)
  @@ (<<"M", "H", "1", "9">> :> <<"A", "m", "r", "a", "v", "a", "t", "i", " ", "R", "T", "O">>)
  @@ (<<"M", "H", "2", "0">> :> <<"B", "u", "l", "d", "h", "a", "n", "a", " ", "R", "T", "O">>)
  @@ (<<"M", "H", "2", "1">> :> <<"A", "k", "o", "l", "a", " ", "R", "T", "O">>)
  @@ (<<"M", "H", "2", "2">> :> <<"W", "a", "s", "h", "i", "m", " ", "R", "T", "O">>)
  @@ (<<"M", "H", "2", "3">> :> <<"Y", "a", "v", "a", "t", "m", "a", "l", " ", "R", "T", "O">>)
  @@ (<<"M", "H", "3", "1">> :> <<"C", "h", "a", "n", "d", "r", "a", "p", "u", "r", " ", "R", "T", "O">>)
  @@ (<<"M", "H", "4", "3">> :> <<"P", "u", "n", "e", " ", "E", "a", "s", "t", " ", "R", "T", "O">>)
  @@ (<<"M", "H", "4", "6">> :> <<"S", "a", "t", "a", "r", "a", " ", "R", "T", "O">>)
  @@ (<<"M", "H", "4", "7">> :> <<"N", "a", "n", "d", "e", "d", " ", "R", "T", "O">>)
  @@ (<<"D", "L", "0", "1">> :> <<"D", "e", "l", "h", "i", " ", "C", "e", "n", "t", "r", "a", "l", " ", "R", "T", "O">>)
  @@ (<<"D", "L", "0", "2">> :> <<"D", "e", "l", "h", "i", " ", "W", "e", "s", "t", " ", "R", "T", "O">>)
  @@ (<<"D", "L", "0", "3">> :> <<"D", "e", "l", "h", "i", " ", "E", "a", "s", "t", " ", "R", "T", "O">>)
  @@ (<<"D", "L", "0", "4">> :> <<"D", "e", "l", "h", "i", " ", "S", "o", "u", "t", "h", " ", "R", "T", "O">>)
  @@ (<<"D", "L", "0", "5">> :> <<"D", "e", "l", "h", "i", " ", "N", "o", "r", "t", "h", " ", "R", "T", "O">>)
  @@ (<<"D", "L", "0", "6">> :> <<"R", "o", "h", "i", "n", "i", " ", "R", "T", "O">>)
  @@ (<<"D", "L", "0", "7">> :> <<"N", "e", "w", " ", "D", "e", "l", "h", "i", " ", "R", "T", "O">>)
  @@ (<<"D", "L", "0", "8">> :> <<"D", "w", "a", "r", "k", "a", " ", "R", "T", "O">>)
  @@ (<<"D", "L", "0", "9">> :> <<"O", "u", "t", "e", "r", " ", "D", "e", "l", "h", "i", " ", "R", "T", "O">>)
  @@ (<<"D", "L", "1", "0">> :> <<"S", "h", "a", "h", "d", "a", "r", "a", " ", "R", "T", "O">>)
  @@ (<<"D", "L", "1", "1">> :> <<"S", "o", "u", "t", "h", " ", "W", "e", "s", "t", " ", "D", "e", "l", "h", "i", " ", "R", "T", "O">>)
  @@ (<<"D", "L", "1", "2">> :> <<"N", "o", "r", "t", "h", " ", "W", "e", "s", "t", " ", "D", "e", "l", "h", "i", " ", "R", "T", "O">>)
  @@ (<<"D", "L", "1", "3">> :> <<"N", "o", "r", "t", "h", " ", "E", "a", "s", "t", " ", "D", "e", "l", "h", "i", " ", "R", "T", "O">>)
  @@ (<<"D", "L", "1", "4">> :> <<"S", "o", "u", "t", "h", " ", "E", "a", "s", "t", " ", "D", "e", "l", "h", "i", " ", "R", "T", "O">>)
  @@ (<<"K", "A", "0", "1">> :> <<"B", "a", "n", "g", "a", "l", "o", "r", "e", " ", "C", "e", "n", "t", "r", "a", "l", " ", "R", "T", "O">>)
  @@ (<<"K", "A", "0", "2">> :> <<"B", "a", "n", "g", "a", "l", "o", "r", "e", " ", "N", "o", "r", "t", "h", " ", "R", "T", "O">>)
  @@ (<<"K", "A", "0", "3">> :> <<"B", "a", "n", "g", "a", "l", "o", "r", "e", " ", "S", "o", "u", "t", "h", " ", "R", "T", "O">>)
  @@ (<<"K", "A", "0", "4">> :> <<"B", "a", "n", "g", "a", "l", "o", "r", "e", " ", "E", "a", "s", "t", " ", "R", "T", "O">>)
  @@ (<<"K", "A", "0", "5">> :> <<"B", "a", "n", "g", "a", "l", "o", "r", "e", " ", "W", "e", "s", "t", " ", "R", "T", "O">>)
  @@ (<<"K", "A", "0", "6">> :> <<"T", "u", "m", "k", "u", "r", " ", "R", "T", "O">>)
  @@ (<<"K", "A", "0", "7">> :> <<"M", "y", "s", "o", "r", "e", " ", "R", "T", "O">>)
  @@ (<<"K", "A", "0", "8">> :> <<"B", "e", "l", "l", "a", "r", "y", " ", "R", "T", "O">>)
  @@ (<<"K", "A", "0", "9">> :> <<"M", "a", "n", "g", "a", "l", "o", "r", "e", " ", "R", "T", "O">>)
  @@ (<<"K", "A", "1", "0">> :> <<"H", "u", "b", "l", "i", " ", "R", "T", "O">>)
  @@ (<<"K", "A", "1", "1">> :> <<"G", "u", "l", "b", "a", "r", "g", "a", " ", "R", "T", "O">>)
  @@ (<<"K", "A", "1", "2">> :> <<"B", "e", "l", "g", "a", "u", "m", " ", "R", "T", "O">>)
  @@ (<<"K", "A", "5", "1">> :> <<"B", "B", "M", "P", " ", "E", "a", "s", "t", " ", "R", "T", "O">>)
  @@ (<<"K", "A", "5", "2">> :> <<"B", "B", "M", "P", " ", "W", "e", "s", "t", " ", "R", "T", "O">>)
  @@ (<<"K", "A", "5", "3">> :> <<"B", "B", "M", "P", " ", "N", "o", "r", "t", "h", " ", "R", "T", "O">>)
  @@ (<<"T", "N", "0", "1">> :> <<"C", "h", "e", "n", "n", "a", "i", " ", "C", "e", "n", "t", "r", "a", "l", " ", "R", "T", "O">>)
  @@ (<<"T", "N", "0", "2">> :> <<"C", "h", "e", "n", "n", "a", "i", " ", "N", "o", "r", "t", "h", " ", "R", "T", "O">>)
  @@ (<<"T", "N", "0", "3">> :> <<"C", "h", "e", "n", "n", "a", "i", " ", "S", "o", "u", "t", "h", " ", "R", "T", "O">>)
  @@ (<<"T", "N", "0", "4">> :> <<"C", "h", "e", "n", "n", "a", "i", " ", "W", "e", "s", "t", " ", "R", "T", "O">>)
  @@ (<<"T", "N", "0", "5">> :> <<"C", "h", "e", "n", "n", "a", "i", " ", "E", "a", "s", "t", " ", "R", "T", "O">>)
  @@ (<<"T", "N", "0", "6">> :> <<"T", "h", "i", "r", "u", "v", "a", "l", "l", "u", "r", " ", "R", "T", "O">>)
  @@ (<<"T", "N", "0", "7">> :> <<"K", "a", "n", "c", "h", "i", "p", "u", "r", "a", "m", " ", "R", "T", "O">>)
  @@ (<<"T", "N", "0", "8">> :> <<"V", "e", "l", "l", "o", "r", "e", " ", "R", "T", "O">>)
  @@ (<<"T", "N", "0", "9">> :> <<"T", "i", "r", "u", "v", "a", "n", "n", "a", "m", "a", "l", "a", "i", " ", "R", "T", "O">>)
  @@ (<<"T", "N", "1", "0">> :> <<"V", "i", "l", "l", "u", "p", "u", "r", "a", "m", " ", "R", "T", "O">>)
  @@ (<<"T", "N", "1", "1">> :> <<"C", "u", "d", "d", "a", "l", "o", "r", "e", " ", "R", "T", "O">>)
  @@ (<<"T", "N", "1", "2">> :> <<"C", "h", "i", "d", "a", "m", "b", "a", "r", "a", "m", " ", "R", "T", "O">>)
  @@ (<<"U", "P", "0", "1">> :> <<"A", "g", "r", "a", " ", "R", "T", "O">>)
  @@ (<<"U", "P", "0", "2">> :> <<"A", "l", "i", "g", "a", "r", "h", " ", "R", "T", "O">>)
  @@ (<<"U", "P", "0", "3">> :> <<"A", "l", "l", "a", "h", "a", "b", "a", "d", " ", "R", "T", "O">>)
  @@ (<<"U", "P", "0", "4">> :> <<"A", "m", "b", "e", "d", "k", "a", "r", " ", "N", "a", "g", "a", "r", " ", "R", "T", "O">>)
  @@ (<<"U", "P", "0", "5">> :> <<"A", "m", "e", "t", "h", "i", " ", "R", "T", "O">>)
  @@ (<<"U", "P", "0", "6">> :> <<"A", "m", "r", "o", "h", "a", " ", "R", "T", "O">>)
  @@ (<<"U", "P", "0", "7">> :> <<"A", "u", "r", "a", "i", "y", "a", " ", "R", "T", "O">>)
  @@ (<<"U", "P", "0", "8">> :> <<"A", "z", "a", "m", "g", "a", "r", "h", " ", "R", "T", "O">>)
  @@ (<<"U", "P", "0", "9">> :> <<"B", "a", "g", "h", "p", "a", "t", " ", "R", "T", "O">>)
  @@ (<<"U", "P", "1", "0">> :> <<"B", "a", "h", "r", "a", "i", "c", "h", " ", "R", "T", "O">>)
  @@ (<<"U", "P", "1", "1">> :> <<"B", "a", "l", "l", "i", "a", " ", "R", "T", "O">>)
  @@ (<<"U", "P", "1", "2">> :> <<"B", "a", "l", "r", "a", "m", "p", "u", "r", " ", "R", "T", "O">>)
  @@ (<<"U", "P", "1", "3">> :> <<"B", "a", "n", "d", "a", " ", "R", "T", "O">>)
  @@ (<<"U", "P", "1", "4">> :> <<"B", "a", "r", "a", "b", "a", "n", "k", "i", " ", "R", "T", "O">>)
  @@ (<<"U", "P", "1", "5">> :> <<"B", "a", "r", "e", "i", "l", "l", "y", " ", "R", "T", "O">>)
  @@ (<<"U", "P", "1", "6">> :> <<"B", "a", "s", "t", "i", " ", "R", "T", "O">>)
  @@ (<<"U", "P", "1", "7">> :> <<"B", "h", "a", "d", "o", "h", "i", " ", "R", "T", "O">>)
  @@ (<<"U", "P", "1", "8">> :> <<"B", "i", "j", "n", "o", "r", " ", "R", "T", "O">>)
  @@ (<<"U", "P", "1", "9">> :> <<"B", "u", "d", "a", "u", "n", " ", "R", "T", "O">>)
  @@ (<<"U", "P", "2", "0">> :> <<"B", "u", "l", "a", "n", "d", "s", "h", "a", "h", "r", " ", "R", "T", "O">>)
  @@ (<<"U", "P", "2", "1">> :> <<"C", "h", "a", "n", "d", "a", "u", "l", "i", " ", "R", "T", "O">>)
  @@ (<<"U", "P", "2", "2">> :> <<"C", "h", "i", "t", "r", "a", "k", "o", "o", "t", " ", "R", "T", "O">>)
  @@ (<<"U", "P", "2", "3">> :> <<"D", "e", "o", "r", "i", "a", " ", "R", "T", "O">>)
  @@ (<<"U", "P", "2", "4">> :> <<"E", "t", "a", "h", " ", "R", "T", "O">>)
  @@ (<<"U", "P", "2", "5">> :> <<"E", "t", "a", "w", "a", "h", " ", "R", "T", "O">>)
  @@ (<<"U", "P", "2", "6">> :> <<"F", "a", "i", "z", "a", "b", "a", "d", " ", "R", "T", "O">>)
  @@ (<<"U", "P", "2", "7">> :> <<"F", "a", "r", "r", "u", "k", "h", "a", "b", "a", "d", " ", "R", "T", "O">>)
  @@ (<<"U", "P", "2", "8">> :> <<"F", "a", "t", "e", "h", "p", "u", "r", " ", "R", "T", "O">>)
  @@ (<<"U", "P", "2", "9">> :> <<"F", "i", "r", "o", "z", "a", "b", "a", "d", " ", "R", "T", "O">>)
  @@ (<<"U", "P", "3", "0">> :> <<"G", "a", "u", "t", "a", "m", " ", "B", "u", "d", "d", "h", "a", " ", "N", "a", "g", "a", "r", " ", "R", "T", "O">>)
  @@ (<<"U", "P", "3", "1">> :> <<"G", "h", "a", "z", "i", "a", "b", "a", "d", " ", "R", "T", "O">>)
  @@ (<<"U", "P", "3", "2">> :> <<"G", "h", "a", "z", "i", "p", "u", "r", " ", "R", "T", "O">>)
  @@ (<<"U", "P", "3", "3">> :> <<"G", "o", "n", "d", "a", " ", "R", "T", "O">>)
  @@ (<<"U", "P", "3", "4">> :> <<"G", "o", "r", "a", "k", "h", "p", "u", "r", " ", "R", "T", "O">>)
  @@ (<<"U", "P", "3", "5">> :> <<"H", "a", "m", "i", "r", "p", "u", "r", " ", "R", "T", "O">>)
  @@ (<<"U", "P", "3", "6">> :> <<"H", "a", "p", "u", "r", " ", "R", "T", "O">>)
  @@ (<<"U", "P", "3", "7">> :> <<"H", "a", "r", "d", "o", "i", " ", "R", "T", "O">>)
  @@ (<<"U", "P", "3", "8">> :> <<"H", "a", "t", "h", "r", "a", "s", " ", "R", "T", "O">>)
  @@ (<<"U", "P", "3", "9">> :> <<"J", "a", "l", "a", "u", "n", " ", "R", "T", "O">>)
  @@ (<<"U", "P", "4", "0">> :> <<"J", "a", "u", "n", "p", "u", "r", " ", "R", "T", "O">>)
  @@ (<<"U", "P", "4", "1">> :> <<"J", "h", "a", "n", "s", "i", " ", "R", "T", "O">>)
  @@ (<<"U", "P", "4", "2">> :> <<"K", "a", "n", "n", "a", "u", "j", " ", "R", "T", "O">>)
  @@ (<<"U", "P", "4", "3">> :> <<"K", "a", "n", "p", "u", "r", " ", "D", "e", "h", "a", "t", " ", "R", "T", "O">>)
  @@ (<<"U", "P", "4", "4">> :> <<"K", "a", "n", "p", "u", "r", " ", "N", "a", "g", "a", "r", " ", "R", "T", "O">>)
  @@ (<<"U", "P", "4", "5">> :> <<"K", "a", "s", "g", "a", "n", "j", " ", "R", "T", "O">>)
  @@ (<<"U", "P", "4", "6">> :> <<"K", "a", "u", "s", "h", "a", "m", "b", "i", " ", "R", "T", "O">>)
  @@ (<<"U", "P", "4", "7">> :> <<"K", "h", "e", "r", "i", " ", "R", "T", "O">>)
  @@ (<<"U", "P", "4", "8">> :> <<"K", "u", "s", "h", "i", "n", "a", "g", "a", "r", " ", "R", "T", "O">>)
  @@ (<<"U", "P", "4", "9">> :> <<"L", "a", "l", "i", "t", "p", "u", "r", " ", "R", "T", "O">>)
  @@ (<<"U", "P", "5", "0">> :> <<"L", "u", "c", "k", "n", "o", "w", " ", "R", "T", "O">>)
  @@ (<<"U", "P", "5", "1">> :> <<"M", "a", "h", "a", "r", "a", "j", "g", "a", "n", "j", " ", "R", "T", "O">>)
  @@ (<<"U", "P", "5", "2">> :> <<"M", "a", "h", "o", "b", "a", " ", "R", "T", "O">>)
  @@ (<<"U", "P", "5", "3">> :> <<"M", "a", "i", "n", "p", "u", "r", "i", " ", "R", "T", "O">>)
  @@ (<<"U", "P", "5", "4">> :> <<"M", "a", "t", "h", "u", "r", "a", " ", "R", "T", "O">>)
  @@ (<<"U", "P", "5", "5">> :> <<"M", "a", "u", " ", "R", "T", "O">>)
  @@ (<<"U", "P", "5", "6">> :> <<"M", "e", "e", "r", "u", "t", " ", "R", "T", "O">>)
  @@ (<<"U", "P", "5", "7">> :> <<"M", "i", "r", "z", "a", "p", "u", "r", " ", "R", "T", "O">>)
  @@ (<<"U", "P", "5", "8">> :> <<"M", "o", "r", "a", "d", "a", "b", "a", "d", " ", "R", "T", "O">>)
  @@ (<<"U", "P", "5", "9">> :> <<"M", "u", "z", "a", "f", "f", "a", "r", "n", "a", "g", "a", "r", " ", "R", "T", "O">>)
  @@ (<<"U", "P", "6", "0">> :> <<"P", "i", "l", "i", "b", "h", "i", "t", " ", "R", "T", "O">>)
  @@ (<<"U", "P", "6", "1">> :> <<"P", "r", "a", "t", "a", "p", "g", "a", "r", "h", " ", "R", "T", "O">>)
  @@ (<<"U", "P", "6", "2">> :> <<"R", "a", "e", "b", "a", "r", "e", "l", "i", " ", "R", "T", "O">>)
  @@ (<<"U", "P", "6", "3">> :> <<"R", "a", "m", "p", "u", "r", " ", "R", "T", "O">>)
  @@ (<<"U", "P", "6", "4">> :> <<"S", "a", "h", "a", "r", "a", "n", "p", "u", "r", " ", "R", "T", "O">>)
  @@ (<<"U", "P", "6", "5">> :> <<"S", "a", "m", "b", "h", "a", "l", " ", "R", "T", "O">>)
  @@ (<<"U", "P", "6", "6">> :> <<"S", "a", "n", "t", " ", "K", "a", "b", "i", "r", " ", "N", "a", "g", "a", "r", " ", "R", "T", "O">>)
  @@ (<<"U", "P", "6", "7">> :> <<"S", "h", "a", "h", "j", "a", "h", "a", "n", "p", "u", "r", " ", "R", "T", "O">>)
  @@ (<<"U", "P", "6", "8">> :> <<"S", "h", "a", "m", "l", "i", " ", "R", "T", "O">>)
  @@ (<<"U", "P", "6", "9">> :> <<"S", "h", "r", "a", "v", "a", "s", "t", "i", " ", "R", "T", "O">>)
  @@ (<<"U", "P", "7", "0">> :> <<"S", "i", "d", "d", "h", "a", "r", "t", "h", "n", "a", "g", "a", "r", " ", "R", "T", "O">>)
  @@ (<<"U", "P", "7", "1">> :> <<"S", "i", "t", "a", "p", "u", "r", " ", "R", "T", "O">>)
  @@ (<<"U", "P", "7", "2">> :> <<"S", "o", "n", "b", "h", "a", "d", "r", "a", " ", "R", "T", "O">>)
  @@ (<<"U", "P", "7", "3">> :> <<"S", "u", "l", "t", "a", "n", "p", "u", "r", " ", "R", "T", "O">>)
  @@ (<<"U", "P", "7", "4">> :> <<"U", "n", "n", "a", "o", " ", "R", "T", "O">>)
  @@ (<<"U", "P", "7", "5">> :> <<"V", "a", "r", "a", "n", "a", "s", "i", " ", "R", "T", "O">>)
  @@ (<<"W", "B", "0", "1">> :> <<"K", "o", "l", "k", "a", "t", "a", " ", "C", "e", "n", "t", "r", "a", "l", " ", "R", "T", "O">>)
  @@ (<<"W", "B", "0", "2">> :> <<"K", "o", "l", "k", "a", "t", "a", " ", "S", "o", "u", "t", "h", " ", "R", "T", "O">>)
  @@ (<<"W", "B", "0", "3">> :> <<"K", "o", "l", "k", "a", "t", "a", " ", "N", "o", "r", "t", "h", " ", "R", "T", "O">>)
  @@ (<<"W", "B", "0", "4">> :> <<"H", "o", "w", "r", "a", "h", " ", "R", "T", "O">>)
  @@ (<<"W", "B", "0", "5">> :> <<"H", "o", "o", "g", "h", "l", "y", " ", "R", "T", "O">>)
  @@ (<<"W", "B", "0", "6">> :> <<"2", "4", " ", "P", "a", "r", "g", "a", "n", "a", "s", " ", "N", "o", "r", "t", "h", " ", "R", "T", "O">>)
  @@ (<<"W", "B", "0", "7">> :> <<"2", "4", " ", "P", "a", "r", "g", "a", "n", "a", "s", " ", "S", "o", "u", "t", "h", " ", "R", "T", "O">>)
  @@ (<<"W", "B", "0", "8">> :> <<"N", "a", "d", "i", "a", " ", "R", "T", "O">>)
  @@ (<<"W", "B", "0", "9">> :> <<"M", "u", "r", "s", "h", "i", "d", "a", "b", "a", "d", " ", "R", "T", "O">>)
  @@ (<<"W", "B", "1", "0">> :> <<"B", "i", "r", "b", "h", "u", "m", " ", "R", "T", "O">>)
  @@ (<<"W", "B", "1", "1">> :> <<"B", "u", "r", "d", "w", "a", "n", " ", "E", "a", "s", "t", " ", "R", "T", "O">>)
  @@ (<<"W", "B", "1", "2">> :> <<"B", "u", "r", "d", "w", "a", "n", " ", "W", "e", "s", "t", " ", "R", "T", "O">>)
  @@ (<<"W", "B", "1", "3">> :> <<"M", "a", "l", "d", "a", " ", "R", "T", "O">>)
  @@ (<<"W", "B", "1", "4">> :> <<"D", "i", "n", "a", "j", "p", "u", "r", " ", "N", "o", "r", "t", "h", " ", "R", "T", "O">>)
  @@ (<<"W", "B", "1", "5">> :> <<"D", "i", "n", "a", "j", "p", "u", "r", " ", "S", "o", "u", "t", "h", " ", "R", "T", "O">>)
  @@ (<<"W", "B", "1", "6">> :> <<"J", "a", "l", "p", "a", "i", "g", "u", "r", "i", " ", "R", "T", "O">>)
  @@ (<<"W", "B", "1", "7">> :> <<"D", "a", "r", "j", "e", "e", "l", "i", "n", "g", " ", "R", "T", "O">>)
  @@ (<<"W", "B", "1", "8">> :> <<"C", "o", "o", "c", "h", " ", "B", "e", "h", "a", "r", " ", "R", "T", "O">>)
  @@ (<<"W", "B", "1", "9">> :> <<"A", "l", "i", "p", "u", "r", "d", "u", "a", "r", " ", "R", "T", "O">>)
  @@ (<<"W", "B", "2", "0">> :> <<"K", "a", "l", "i", "m", "p", "o", "n", "g", " ", "R", "T", "O">>)
  @@ (<<"W", "B", "2", "1">> :> <<"B", "a", "n", "k", "u", "r", "a", " ", "R", "T", "O">>)
  @@ (<<"W", "B", "2", "2">> :> <<"P", "u", "r", "u", "l", "i", "a", " ", "R", "T", "O">>)
  @@ (<<"W", "B", "2", "3">> :> <<"P", "a", "s", "c", "h", "i", "m", " ", "M", "e", "d", "i", "n", "i", "p", "u", "r", " ", "R", "T", "O">>)
  @@ (<<"W", "B", "2", "4">> :> <<"P", "u", "r", "b", "a", " ", "M", "e", "d", "i", "n", "i", "p", "u", "r", " ", "R", "T", "O">>)
  @@ (<<"W", "B", "2", "5">> :> <<"J", "h", "a", "r", "g", "r", "a", "m", " ", "R", "T", "O">>)

\* mutant: a missing key is answered by the key itself
get_KeyAsDefault(table, key, default) == IF key \in DOMAIN table THEN table[key] ELSE key

\* dict.get(key, default)
get(table, key, default) == IF key \in DOMAIN table THEN table[key] ELSE default

\* mutant: the district is not padded
zfill2_NoPad(s) == s

\* str.zfill(2) of a string of digits
zfill2(s) == IF Len(s) >= 2 THEN s ELSE IF Len(s) = 1 THEN <<"0">> \o s ELSE <<"0", "0">>

\* the value of one decimal digit, as int() reads it
DigitValue(c) ==
  CASE c = "0" -> 0 [] c = "1" -> 1 [] c = "2" -> 2 [] c = "3" -> 3 [] c = "4" -> 4
    [] c = "5" -> 5 [] c = "6" -> 6 [] c = "7" -> 7 [] c = "8" -> 8 [] c = "9" -> 9
    [] c = "u0663" -> 3

\* int(s) for a non-empty string of decimal digits
RECURSIVE int(_)
int(s) ==
  IF Len(s) = 1 THEN DigitValue(s[1])
  ELSE 10 * int(SubSeq(s, 1, Len(s) - 1)) + DigitValue(s[Len(s)])

\* mutant: the list ends with the second pattern
patterns_NoSingleDigit == << <<2, 2, 4, 4>>, <<2, 2, 1, 4>> >>

\* mutant: the most general pattern is tried first
patterns_GeneralFirst == << <<1, 2, 1, 4>>, <<2, 2, 1, 4>>, <<2, 2, 4, 4>> >>

\* the patterns list of _parse_vehicle_number: the bounds {dlo,dhi} of the
\* district digits and {nlo,nhi} of the number digits
patterns == << <<2, 2, 4, 4>>, <<2, 2, 1, 4>>, <<1, 2, 1, 4>> >>

None == [matched |-> FALSE]

\* mutant: the number is stored with its district padded
ParsedInfo_PaddedOriginal(vehicle_number, match) ==
  [matched |-> TRUE,
   original |-> match.g1 \o zfill2(match.g2) \o match.g3 \o match.g4,
   state_code |-> match.g1,
   district_code |-> match.g2,
   series |-> match.g3,
   number |-> match.g4,
   rto_code |-> match.g1 \o zfill2(match.g2)]

\* the dictionary built from a match object
ParsedInfo(vehicle_number, match) ==
  [matched |-> TRUE,
   original |-> vehicle_number,
   state_code |-> match.g1,
   district_code |-> match.g2,
   series |-> match.g3,
   number |-> match.g4,
   rto_code |-> match.g1 \o zfill2(match.g2)]

\* the for loop of _parse_vehicle_number from patterns[i] on; the pattern
\* that matched is kept with the dictionary (it is no key of the code's
\* dictionary and nothing of the lookup reads it)
RECURSIVE ParseFrom(_, _)
ParseFrom(i, vehicle_number) ==
  IF i > Len(patterns) THEN None
  ELSE LET p == patterns[i]
           match == VehicleMatch(vehicle_number, p[1], p[2], p[3], p[4])
       IN IF match.matched THEN ParsedInfo(vehicle_number, match) @@ [pattern |-> p]
          ELSE ParseFrom(i + 1, vehicle_number)

\* TracingService._parse_vehicle_number
_parse_vehicle_number(vehicle_number) == ParseFrom(1, vehicle_number)

\* mutant: a two-letter series outside the listed ranges is a private vehicle
_get_vehicle_type_DefaultPrivate(series) ==
  IF Len(series) = 1 THEN {Literal.Private_Old}
  ELSE IF Len(series) = 2 THEN
    LET first_char == series[1]
    IN IF first_char \in {"E", "F", "G", "H"} THEN {Literal.Taxi}
       ELSE IF first_char \in {"T", "U", "V", "W"} THEN {Literal.Two_Wheeler}
       ELSE IF first_char \in {"X", "Y", "Z"} THEN {Literal.Special}
       ELSE {Literal.Private}
  ELSE {}

\* TracingService._get_vehicle_type (None is the empty set of values)
_get_vehicle_type(series) ==
  IF Len(series) = 1 THEN {Literal.Private_Old}
  ELSE IF Len(series) = 2 THEN
    LET first_char == series[1]
    IN IF first_char \in {"A", "B", "C", "D"} THEN {Literal.Private}
       ELSE IF first_char \in {"E", "F", "G", "H"} THEN {Literal.Taxi}
       ELSE IF first_char \in {"P", "Q", "R", "S"} THEN {Literal.Private}
       ELSE IF first_char \in {"T", "U", "V", "W"} THEN {Literal.Two_Wheeler}
       ELSE IF first_char \in {"X", "Y", "Z"} THEN {Literal.Special}
       ELSE {}
  ELSE {}

\* mutant: the bands' upper bounds are inclusive
_estimate_registration_year_InclusiveBounds(parsed_info) ==
  IF parsed_info.number = <<>> \/ ~AllDigits(parsed_info.number) THEN {}
  ELSE LET number == int(parsed_info.number)
       IN IF number <= 1000 THEN {Literal.Before_2005}
          ELSE IF number <= 5000 THEN {Literal.Y2005_2010}
          ELSE IF number <= 9000 THEN {Literal.Y2010_2015}
          ELSE {Literal.After_2015}

\* TracingService._estimate_registration_year (None is the empty set): int()
\* raises on a string that is empty or holds a character that is no digit
_estimate_registration_year(parsed_info) ==
  IF parsed_info.number = <<>> \/ ~AllDigits(parsed_info.number) THEN {}
  ELSE LET number == int(parsed_info.number)
       IN IF number < 1000 THEN {Literal.Before_2005}
          ELSE IF number < 5000 THEN {Literal.Y2005_2010}
          ELSE IF number < 9000 THEN {Literal.Y2010_2015}
          ELSE {Literal.After_2015}

\* TracingService._get_vehicle_details
_get_vehicle_details(parsed_info) ==
  LET vehicle_type == _get_vehicle_type(parsed_info.series)
      reg_year == _estimate_registration_year(parsed_info)
      keys == {"Registration Number", "State", "RTO Office", "RTO Code", "Series",
               "Number", "Registration Region"}
              \cup (IF vehicle_type # {} THEN {"Vehicle Type"} ELSE {})
              \cup (IF reg_year # {} THEN {"Estimated Registration Year"} ELSE {})
  IN [k \in keys |->
       CASE k = "Registration Number" -> parsed_info.original
         [] k = "State" -> get(state_codes, parsed_info.state_code, Literal.Unknown_State)
         [] k = "RTO Office" -> get(rto_offices, parsed_info.rto_code, Literal.Unknown_RTO)
         [] k = "RTO Code" -> parsed_info.rto_code
         [] k = "Series" -> parsed_info.series
         [] k = "Number" -> parsed_info.number
         [] k = "Registration Region" ->
              parsed_info.state_code \o <<"-">> \o parsed_info.district_code
         [] k = "Vehicle Type" -> CHOOSE v \in vehicle_type : TRUE
         [] k = "Estimated Registration Year" -> CHOOSE v \in reg_year : TRUE]

\* TracingService.lookup_vehicle_info
lookup_vehicle_info(vehicle_number) ==
  LET cleaned == clean_vehicle(vehicle_number)
      parsed_info == _parse_vehicle_number(cleaned)
  IN IF ~parsed_info.matched THEN Message("Invalid vehicle registration format")
     ELSE Dict(_get_vehicle_details(parsed_info))

\* -------------------------------------------- trace_phone_number as a task
\* the arguments trace_phone_number is called with
PhoneInputs ==
  { <<"+", "9", "1", "1", "2", "3", "4", "5", "6", "7", "8", "9", "0">>,
    <<"9", "9", "9", "9", "9", "9", "9", "9", "9", "9">>,
    <<"9", "8", "7", "6", "5", "4", "3", "2", "1", "0">>,
    <<"8", "1", "2", "3", "4", "5", "6", "7", "8", "9">>,
    <<"7", "1", "2", "3", "4", "5", "6", "7", "8", "9">>,
    <<"6", "1", "2", "3", "4", "5", "6", "7", "8", "9">>,
    <<"5", "1", "2", "3", "4", "5", "6", "7", "8", "9">>,
    <<"+", "1", "5", "5", "5", "1", "2", "3", "4", "5", "6", "7">>,
    <<"+", "4", "4", "7", "9", "1", "1", "1", "2", "3", "4", "5", "6">>,
    <<"+", "3", "3", "1", "2", "3", "4", "5", "6", "7", "8", "9">>,
    <<"9", "8", "7", "6", "5", " ", "4", "3", "2", "1", "0">>,
    <<"1", "2", "3", "4", "5">>,
    <<>>,
    <<"+", "9", "1">>,
    <<"1", "2", "+", "3", "4">> }

\* response bodies: no label at all, every label in a cell followed by its
\* value cell, and a body that lacks some labels, has blank and dirty value
\* cells, labels whose extraction raises and, at its end, labels with no
\* cell after them
BodyEmpty == <<>>

BodyFull ==
  << Node("td", "Complaints", <<"C", "o", "m", "p", "l", "a", "i", "n", "t", "s">>),
     Node("td", "none", <<"J", "i", "o">>),
     Node("td", "Owner Name", <<"O", "w", "n", "e", "r", " ", "N", "a", "m", "e">>),
     Node("td", "none", <<"J", "i", "o">>),
     Node("td", "SIM card", <<"S", "I", "M", " ", "c", "a", "r", "d">>),
     Node("td", "none", <<"J", "i", "o">>),
     Node("td", "Mobile State", <<"M", "o", "b", "i", "l", "e", " ", "S", "t", "a", "t", "e">>),
     Node("td", "none", <<"J", "i", "o">>),
     Node("td", "IMEI number", <<"I", "M", "E", "I", " ", "n", "u", "m", "b", "e", "r">>),
     Node("td", "none", <<"J", "i", "o">>),
     Node("td", "MAC address", <<"M", "A", "C", " ", "a", "d", "d", "r", "e", "s", "s">>),
     Node("td", "none", <<"J", "i", "o">>),
     Node("td", "Connection", <<"C", "o", "n", "n", "e", "c", "t", "i", "o", "n">>),
     Node("td", "none", <<"J", "i", "o">>),
     Node("td", "IP address", <<"I", "P", " ", "a", "d", "d", "r", "e", "s", "s">>),
     Node("td", "none", <<"J", "i", "o">>),
     Node("td", "Owner Address", <<"O", "w", "n", "e", "r", " ", "A", "d", "d", "r", "e", "s", "s">>),
     Node("td", "none", <<"J", "i", "o">>),
     Node("td", "Hometown", <<"H", "o", "m", "e", "t", "o", "w", "n">>),
     Node("td", "none", <<"J", "i", "o">>),
     Node("td", "Refrence City", <<"R", "e", "f", "r", "e", "n", "c", "e", " ", "C", "i", "t", "y">>),
     Node("td", "none", <<"J", "i", "o">>),
     Node("td", "Owner Personality", <<"O", "w", "n", "e", "r", " ", "P", "e", "r", "s", "o", "n", "a", "l", "i", "t", "y">>),
     Node("td", "none", <<"J", "i", "o">>),
     Node("td", "Language", <<"L", "a", "n", "g", "u", "a", "g", "e">>),
     Node("td", "none", <<"J", "i", "o">>),
     Node("td", "Mobile Locations", <<"M", "o", "b", "i", "l", "e", " ", "L", "o", "c", "a", "t", "i", "o", "n", "s">>),
     Node("td", "none", <<"J", "i", "o">>),
     Node("td", "Country", <<"C", "o", "u", "n", "t", "r", "y">>),
     Node("td", "none", <<"J", "i", "o">>),
     Node("td", "Tracking History", <<"T", "r", "a", "c", "k", "i", "n", "g", " ", "H", "i", "s", "t", "o", "r", "y">>),
     Node("td", "none", <<"J", "i", "o">>),
     Node("td", "Tracker Id", <<"T", "r", "a", "c", "k", "e", "r", " ", "I", "d">>),
     Node("td", "none", <<"J", "i", "o">>),
     Node("td", "Tower Locations", <<"T", "o", "w", "e", "r", " ", "L", "o", "c", "a", "t", "i", "o", "n", "s">>),
     Node("td", "none", <<"J", "i", "o">>) >>

BodyMixed ==
  << Node("td", "SIM card", <<"S", "I", "M", " ", "c", "a", "r", "d">>),
     Node("td", "none", <<" ", "\n">>),
     Node("raises", "Mobile State", <<"M", "o", "b", "i", "l", "e", " ", "S", "t", "a", "t", "e">>),
     Node("td", "IMEI number", <<"I", "M", "E", "I", " ", "n", "u", "m", "b", "e", "r">>),
     Node("td", "none", <<" ", "4", "G", "\t", " ", "#", "1", " ">>),
     Node("td", "MAC address", <<"M", "A", "C", " ", "a", "d", "d", "r", "e", "s", "s">>),
     Node("td", "none", <<" ", "4", "G", "\t", " ", "#", "1", " ">>),
     Node("td", "Connection", <<"C", "o", "n", "n", "e", "c", "t", "i", "o", "n">>),
     Node("td", "none", <<"#">>),
     Node("raises", "IP address", <<"I", "P", " ", "a", "d", "d", "r", "e", "s", "s">>),
     Node("td", "Owner Address", <<"O", "w", "n", "e", "r", " ", "A", "d", "d", "r", "e", "s", "s">>),
     Node("td", "none", <<" ", "4", "G", "\t", " ", "#", "1", " ">>),
     Node("td", "Refrence City", <<"R", "e", "f", "r", "e", "n", "c", "e", " ", "C", "i", "t", "y">>),
     Node("td", "none", <<" ", "4", "G", "\t", " ", "#", "1", " ">>),
     Node("td", "Owner Personality", <<"O", "w", "n", "e", "r", " ", "P", "e", "r", "s", "o", "n", "a", "l", "i", "t", "y">>),
     Node("td", "none", <<" ", "4", "G", "\t", " ", "#", "1", " ">>),
     Node("td", "Mobile Locations", <<"M", "o", "b", "i", "l", "e", " ", "L", "o", "c", "a", "t", "i", "o", "n", "s">>),
     Node("td", "none", <<" ", "4", "G", "\t", " ", "#", "1", " ">>),
     Node("td", "Tracking History", <<"T", "r", "a", "c", "k", "i", "n", "g", " ", "H", "i", "s", "t", "o", "r", "y">>),
     Node("td", "none", <<" ", "4", "G", "\t", " ", "#", "1", " ">>),
     Node("td", "Tracker Id", <<"T", "r", "a", "c", "k", "e", "r", " ", "I", "d">>),
     Node("td", "none", <<" ", "\n">>),
     Node("td", "Tower Locations", <<"T", "o", "w", "e", "r", " ", "L", "o", "c", "a", "t", "i", "o", "n", "s">>),
     Node("td", "none", <<" ", "4", "G", "\t", " ", "#", "1", " ">>),
     Node("text", "Owner Name", <<"O", "w", "n", "e", "r", " ", "N", "a", "m", "e">>),
     Node("text", "Hometown", <<"H", "o", "m", "e", "t", "o", "w", "n">>) >>

\* the strings the small documents are made of: a label in a cell, a label
\* outside any cell, a value cell, a blank cell, a label whose extraction
\* raises
Nodes ==
  { Node("td", "Owner Name", <<"O", "w", "n", "e", "r", " ", "N", "a", "m", "e">>),
    Node("text", "Hometown", <<"H", "o", "m", "e", "t", "o", "w", "n">>),
    Node("td", "none", <<"J", "i", "o">>),
    Node("td", "none", <<" ", "\n">>),
    Node("raises", "Country", <<"C", "o", "u", "n", "t", "r", "y">>) }

\* every document of at most MaxNodes such strings
Documents == UNION {[1 .. n -> Nodes] : n \in 0 .. MaxNodes}

ResponseBodies == {BodyEmpty, BodyFull, BodyMixed} \cup Documents

\* what session.post(url, data=payload, timeout=REQUEST_TIMEOUT) can give
NetOutcomes ==
  {[kind |-> "response", status_code |-> 200, body |-> b, what |-> "ok"] : b \in ResponseBodies}
  \cup {[kind |-> "response", status_code |-> c, body |-> <<>>, what |-> "status"] : c \in {404, 500}}
  \cup {[kind |-> "exception", status_code |-> 0, body |-> <<>>, what |-> w] :
          w \in {"Timeout", "ConnectionError"}}

\* the outcomes the handlers' remote calls are given: a success, a failure
\* status and a timeout
HandlerNetOutcomes ==
  {net \in NetOutcomes :
     \/ net.what \in {"Timeout"}
     \/ net.status_code = 500
     \/ net.status_code = 200 /\ net.body = BodyMixed}

NoOutcome == [kind |-> "none", status_code |-> 0, body |-> <<>>, what |-> "none"]

NoResult == [kind |-> "none", value |-> "none"]

\* a call of trace_phone_number: pc is where the coroutine stands, worker is
\* the state of the executor job running session.post, net its outcome
IdleCall ==
  [pc |-> "idle", phone_number |-> <<>>, cleaned_number |-> <<>>,
   worker |-> "none", net |-> NoOutcome, tried |-> <<>>, result |-> NoResult]

\* trace_phone_number up to the await of run_in_executor in _trace_calltracer
TraceBegin(c, phone_number) ==
  [c EXCEPT !.pc = "remote_inflight",
            !.phone_number = phone_number,
            !.cleaned_number = clean_phone(phone_number),
            !.worker = "queued"]

\* trace_phone_number from the completion of the executor job to its return
TraceResume(c, net) ==
  LET r == TraceLoop(1, c.cleaned_number, net, <<>>)
  IN [c EXCEPT !.pc = "returned", !.worker = "finished", !.net = net,
               !.tried = r.tried, !.result = r.result]

\* The task is cancelled at the await: CancelledError is not an Exception, so
\* no except clause of trace_phone_number or _trace_calltracer catches it.  A
\* queued executor job is cancelled with the future; a running one is not.
TraceCancelled(c) ==
  [c EXCEPT !.pc = "cancelled",
            !.worker = IF c.worker = "queued" THEN "dropped" ELSE c.worker]

Handlers == 1 .. NumHandlers

\* One invocation of trace_command or vehicle_command.  pc is the await the
\* coroutine stands at; trail lists what it has done so far: "admitted" or
\* "denied" (_check_rate_limit), "member" or "not_member", "no_args",
\* "valid" or "invalid" (the validator), "resolver" (the resolver is called),
\* "error" (the except clause).
IdleHandler ==
  [pc |-> "idle", kind |-> "none", user |-> 0, args |-> <<>>, trail |-> <<>>,
   call |-> IdleCall, result |-> NoResult]

\* ------------------------------------------------------------ rate limiter
\* Config.__init__: both settings are int(os.getenv(...)), any integer; a
\* negative value behaves as 0 does in _check_rate_limit.
Configs == [RATE_LIMIT_REQUESTS : 0 .. MaxRequests,
            RATE_LIMIT_WINDOW : 0 .. MaxWindow]

\* user_key = str(user_id)
user_key(user_id) == ToString(user_id)

UserKeys == {user_key(u) : u \in UserIds}

\* mutant: a timestamp exactly RATE_LIMIT_WINDOW old is kept
CleanOldEntries_KeepBoundary(entries, t, cfg) ==
  LET cutoff_time == t - cfg.RATE_LIMIT_WINDOW
      Keep(request_time) == request_time >= cutoff_time
  IN SelectSeq(entries, Keep)

\* mutant: the comparison is inverted, recent timestamps are dropped
CleanOldEntries_Inverted(entries, t, cfg) ==
  LET cutoff_time == t - cfg.RATE_LIMIT_WINDOW
      Keep(request_time) == request_time < cutoff_time
  IN SelectSeq(entries, Keep)

\* the list comprehension of _check_rate_limit: keep request_time > cutoff_time
CleanOldEntries(entries, t, cfg) ==
  LET cutoff_time == t - cfg.RATE_LIMIT_WINDOW
      Keep(request_time) == request_time > cutoff_time
  IN SelectSeq(entries, Keep)

\* mutant: the first check of a key starts a new dictionary, in which every
\* list is empty
WithKey_FreshDict(rl, k) ==
  IF k \in DOMAIN rl THEN rl
  ELSE [x \in DOMAIN rl \cup {k} |-> <<>>]

\* the dictionary with the key present (an absent key gets the empty list)
WithKey(rl, k) ==
  IF k \in DOMAIN rl THEN rl
  ELSE [x \in DOMAIN rl \cup {k} |-> IF x = k THEN <<>> ELSE rl[x]]

\* mutant: the limit is tested with > instead of >=
_check_rate_limit_OffByOne(rl, user_id, t, cfg) ==
  LET k == user_key(user_id)
      rl0 == WithKey(rl, k)
      cleaned == CleanOldEntries(rl0[k], t, cfg)
      rl1 == [rl0 EXCEPT ![k] = cleaned]
  IN IF Len(cleaned) > cfg.RATE_LIMIT_REQUESTS
       THEN [allowed |-> FALSE, rl |-> rl1]
       ELSE [allowed |-> TRUE, rl |-> [rl1 EXCEPT ![k] = Append(cleaned, t)]]

\* mutant: the request is recorded before the limit is tested
_check_rate_limit_RecordDenied(rl, user_id, t, cfg) ==
  LET k == user_key(user_id)
      rl0 == WithKey(rl, k)
      cleaned == CleanOldEntries(rl0[k], t, cfg)
      rl1 == [rl0 EXCEPT ![k] = Append(cleaned, t)]
  IN IF Len(cleaned) >= cfg.RATE_LIMIT_REQUESTS
       THEN [allowed |-> FALSE, rl |-> rl1]
       ELSE [allowed |-> TRUE, rl |-> rl1]

\* _check_rate_limit(user_id) called at time t on the dictionary rl:
\* the returned value and the dictionary it leaves behind.
_check_rate_limit(rl, user_id, t, cfg) ==
  LET k == user_key(user_id)
      rl0 == WithKey(rl, k)
      cleaned == CleanOldEntries(rl0[k], t, cfg)
      rl1 == [rl0 EXCEPT ![k] = cleaned]
  IN IF Len(cleaned) >= cfg.RATE_LIMIT_REQUESTS
       THEN [allowed |-> FALSE, rl |-> rl1]
       ELSE [allowed |-> TRUE, rl |-> [rl1 EXCEPT ![k] = Append(cleaned, t)]]

\* the window of a key before a check ("none" when the key is not yet there)
WindowOf(rl, k) == IF k \in DOMAIN rl THEN rl[k] ELSE <<>>

NoCheck == [key |-> "none", before |-> <<>>]

TotalChecks == LET RECURSIVE Sum(_)
                   Sum(S) == IF S = {} THEN 0
                             ELSE LET k == CHOOSE x \in S : TRUE
                                  IN Len(log[k]) + Sum(S \ {k})
               IN Sum(UserKeys)

\* what a check does to the limiter and to the history variables
DoCheck(user_id) ==
  LET k == user_key(user_id)
      r == _check_rate_limit(rate_limiter, user_id, now, config)
  IN /\ rate_limiter' = r.rl
     /\ log' = [log EXCEPT ![k] = Append(@, [t |-> now, allowed |-> r.allowed])]
     /\ lastCheck' = [key |-> k, before |-> WindowOf(rate_limiter, k)]

InitRate ==
  /\ now = 0
  /\ config \in Configs
  /\ rate_limiter = <<>>
  /\ log = [k \in UserKeys |-> <<>>]
  /\ lastCheck = NoCheck
  /\ call = IdleCall
  /\ hs = [h \in Handlers |-> IdleHandler]

\* time passes (datetime.now() is taken to be non-decreasing)
Tick ==
  /\ now < MaxTime
  /\ now' = now + 1
  /\ UNCHANGED <<config, rate_limiter, log, lastCheck, call, hs>>

\* one call of _check_rate_limit(user_id)
Check(user_id) ==
  /\ TotalChecks < MaxChecks
  /\ DoCheck(user_id)
  /\ UNCHANGED <<now, config, call, hs>>

NextRate == Tick \/ \E u \in UserIds : Check(u)

SpecRate == InitRate /\ [][NextRate]_vars

\* ------------------------------------------------- rate limiter: properties
LastEntry(k) == log[k][Len(log[k])]

\* the admitted timestamps of a key among its first n checks, as indices
AdmittedIn(k, n, lo, hi) ==
  {i \in 1 .. n : log[k][i].allowed /\ lo < log[k][i].t /\ log[k][i].t <= hi}

\* C1: an admission check at time t discards every recorded timestamp
\* <= t - window (one exactly window old included) and keeps the others in
\* order; if at least max_requests remain it returns false and records
\* nothing, otherwise it appends t and returns true.
C1_CheckContract ==
  lastCheck.key # "none" =>
    LET k == lastCheck.key
        b == lastCheck.before
        e == LastEntry(k)
        w == rate_limiter[k]
        kept == {i \in DOMAIN b : ~(b[i] <= e.t - config.RATE_LIMIT_WINDOW)}
        n == Cardinality(kept)
    IN /\ \A i \in DOMAIN b : i \in kept <=> i > Len(b) - n
       /\ \A i \in 1 .. n : w[i] = b[Len(b) - n + i]
       /\ IF n >= config.RATE_LIMIT_REQUESTS
            THEN ~e.allowed /\ Len(w) = n
            ELSE e.allowed /\ Len(w) = n + 1 /\ w[n + 1] = e.t

\* C1 witness: a check discarded a timestamp exactly window old and, for
\* that reason only, admitted the request.
C1_Witness ==
  /\ lastCheck.key # "none"
  /\ config.RATE_LIMIT_WINDOW > 0
  /\ LastEntry(lastCheck.key).allowed
  /\ Len(lastCheck.before) >= config.RATE_LIMIT_REQUESTS
  /\ \E i \in DOMAIN lastCheck.before :
       lastCheck.before[i] = LastEntry(lastCheck.key).t - config.RATE_LIMIT_WINDOW

\* C2: for every key and every t0 at most max_requests admitted checks have
\* a timestamp in (t0, t0 + window]; and a check that finds max_requests
\* admitted timestamps in its trailing window is denied.
C2_WindowBound ==
  \A k \in UserKeys :
    /\ \A t0 \in (0 - config.RATE_LIMIT_WINDOW - 1) .. now :
         Cardinality(AdmittedIn(k, Len(log[k]), t0, t0 + config.RATE_LIMIT_WINDOW))
           <= config.RATE_LIMIT_REQUESTS
    /\ \A j \in DOMAIN log[k] :
         Cardinality(AdmittedIn(k, j - 1, log[k][j].t - config.RATE_LIMIT_WINDOW,
                                log[k][j].t)) >= config.RATE_LIMIT_REQUESTS
           => ~log[k][j].allowed

\* C2 witness: a key has max_requests >= 1 admitted timestamps in the trailing
\* window of its last check, which was denied.
C2_Witness ==
  \E k \in UserKeys :
    /\ config.RATE_LIMIT_REQUESTS >= 1
    /\ log[k] # <<>>
    /\ ~LastEntry(k).allowed
    /\ Cardinality(AdmittedIn(k, Len(log[k]), LastEntry(k).t - config.RATE_LIMIT_WINDOW,
                               LastEntry(k).t)) = config.RATE_LIMIT_REQUESTS

\* C3: of the first max_requests + 1 checks of a key (which starts with no
\* recorded timestamp), when all are made less than window after the first,
\* exactly the first max_requests return true and the next returns false.
C3_FirstBurst ==
  \A k \in UserKeys :
    \A j \in DOMAIN log[k] :
      ( /\ j <= config.RATE_LIMIT_REQUESTS + 1
        /\ \A i \in 1 .. j : log[k][i].t < log[k][1].t + config.RATE_LIMIT_WINDOW )
      => (log[k][j].allowed <=> j <= config.RATE_LIMIT_REQUESTS)

\* C3 witness: max_requests >= 2 checks were admitted and the next one,
\* still inside the window of the first, was denied.
C3_Witness ==
  \E k \in UserKeys :
    /\ config.RATE_LIMIT_REQUESTS >= 2
    /\ Len(log[k]) = config.RATE_LIMIT_REQUESTS + 1
    /\ LastEntry(k).t < log[k][1].t + config.RATE_LIMIT_WINDOW
    /\ LastEntry(k).t > log[k][1].t
    /\ \A i \in 1 .. config.RATE_LIMIT_REQUESTS : log[k][i].allowed
    /\ ~LastEntry(k).allowed

\* the smallest timestamp of a non-empty window
Oldest(w) == CHOOSE x \in {w[i] : i \in DOMAIN w} : \A i \in DOMAIN w : x <= w[i]

\* C4: a key that has been denied is admitted by a check made once the clock
\* is past window after the oldest timestamp still recorded in its window,
\* however many denied checks came in between.
C4_Readmission ==
  lastCheck.key # "none" =>
    LET k == lastCheck.key
        b == lastCheck.before
        e == LastEntry(k)
    IN ( /\ \E j \in 1 .. (Len(log[k]) - 1) : ~log[k][j].allowed
         /\ b # <<>>
         /\ e.t > Oldest(b) + config.RATE_LIMIT_WINDOW )
       => e.allowed

\* C4 witness: after two denied checks in a row the key was admitted again,
\* its window still holding the timestamp that had caused the denials.
C4_Witness ==
  /\ lastCheck.key # "none"
  /\ LET k == lastCheck.key
         n == Len(log[k])
     IN /\ n >= 4
        /\ ~log[k][n - 1].allowed
        /\ ~log[k][n - 2].allowed
        /\ log[k][n].allowed
        /\ lastCheck.before # <<>>
        /\ log[k][n].t > Oldest(lastCheck.before) + config.RATE_LIMIT_WINDOW

\* C24: the windows are partitioned by identity.  A check of one key,
\* admitted or denied, leaves the window of every other key as it was and
\* creates no window for it; a key has a window exactly when it has been
\* checked itself; and whether a check is admitted is decided by the
\* admitted checks of its own key alone (fewer than max_requests of them in
\* its trailing window), whatever the other keys have requested.
C24_WindowsPartitioned ==
  /\ [](\A k \in UserKeys :
          /\ k \in DOMAIN rate_limiter <=> log[k] # <<>>
          /\ \A j \in DOMAIN log[k] :
               log[k][j].allowed <=>
                 Cardinality(AdmittedIn(k, j - 1, log[k][j].t - config.RATE_LIMIT_WINDOW,
                                        log[k][j].t)) < config.RATE_LIMIT_REQUESTS)
  /\ [][\A a \in UserKeys :
          log'[a] # log[a] =>
            \A b \in UserKeys \ {a} :
              /\ log'[b] = log[b]
              /\ b \in DOMAIN rate_limiter' <=> b \in DOMAIN rate_limiter
              /\ WindowOf(rate_limiter', b) = WindowOf(rate_limiter, b)]_vars

\* C24 witness: at one and the same time a check of one key was denied, its
\* window being full, and the first check of another key was admitted.
C24_Witness ==
  \E a, b \in UserKeys :
    /\ a # b
    /\ config.RATE_LIMIT_REQUESTS >= 1
    /\ Len(log[a]) >= 2
    /\ ~LastEntry(a).allowed
    /\ Len(rate_limiter[a]) = config.RATE_LIMIT_REQUESTS
    /\ lastCheck.key = b
    /\ lastCheck.before = <<>>
    /\ Len(log[b]) = 1
    /\ LastEntry(b).allowed
    /\ LastEntry(b).t = LastEntry(a).t

\* ------------------------------------------ trace_phone_number: behaviour
InitTrace ==
  /\ now = 0
  /\ config = [RATE_LIMIT_REQUESTS |-> 5, RATE_LIMIT_WINDOW |-> 60]
  /\ rate_limiter = <<>>
  /\ log = [k \in UserKeys |-> <<>>]
  /\ lastCheck = NoCheck
  /\ call = IdleCall
  /\ hs = [h \in Handlers |-> IdleHandler]

\* result = await self.tracing_service.trace_phone_number(phone_number)
CallTrace ==
  /\ call.pc = "idle"
  /\ \E p \in PhoneInputs : call' = TraceBegin(call, p)
  /\ UNCHANGED <<rateVars, hs>>

\* a thread of the default executor takes the job and calls session.post
WorkerStart ==
  /\ call.worker = "queued"
  /\ call' = [call EXCEPT !.worker = "running"]
  /\ UNCHANGED <<rateVars, hs>>

\* session.post returns or raises and the coroutine runs on to its return
RemoteDone ==
  /\ call.pc = "remote_inflight"
  /\ call.worker = "running"
  /\ \E net \in NetOutcomes : call' = TraceResume(call, net)
  /\ UNCHANGED <<rateVars, hs>>

\* the awaiting task is cancelled
CancelTrace ==
  /\ call.pc = "remote_inflight"
  /\ call' = TraceCancelled(call)
  /\ UNCHANGED <<rateVars, hs>>

\* the job of a cancelled call runs to its end in its thread; its outcome
\* is dropped
WorkerFinish ==
  /\ call.pc = "cancelled"
  /\ call.worker = "running"
  /\ \E net \in NetOutcomes : call' = [call EXCEPT !.worker = "finished", !.net = net]
  /\ UNCHANGED <<rateVars, hs>>

NextTrace == CallTrace \/ WorkerStart \/ RemoteDone \/ CancelTrace \/ WorkerFinish

SpecTrace == InitTrace /\ [][NextTrace]_vars

\* ------------------------------------------ trace_phone_number: properties
\* what each strategy, run alone, gives for the call's number and outcome
RemoteOutcome == _trace_calltracer(call.cleaned_number, call.net)

HeuristicOutcome == _trace_truecaller_info(call.cleaned_number)

BasicOutcome == _trace_basic_info(call.cleaned_number)

OutcomeOf(m) ==
  CASE m = "_trace_calltracer" -> RemoteOutcome
    [] m = "_trace_truecaller_info" -> HeuristicOutcome
    [] m = "_trace_basic_info" -> BasicOutcome

StrategyOrder == <<"_trace_calltracer", "_trace_truecaller_info", "_trace_basic_info">>

\* C8: a returned call ran a prefix of remote, heuristic, basic-format, each
\* at most once; every strategy before the last one run was unusable (raised
\* or gave no non-empty mapping); the value returned is the mapping of the
\* first usable strategy, after which none is run; it is the failure value
\* exactly when all three were run and none was usable.
C8_FirstUsableStrategy ==
  call.pc = "returned" =>
    LET n == Len(call.tried)
    IN /\ n >= 1
       /\ n <= 3
       /\ call.tried = SubSeq(StrategyOrder, 1, n)
       /\ \A i \in 1 .. (n - 1) : ~Usable(OutcomeOf(call.tried[i]))
       /\ IF Usable(OutcomeOf(call.tried[n]))
            THEN call.result = OutcomeOf(call.tried[n]).value
            ELSE n = 3 /\ call.result = Unable
       /\ call.result = Unable <=> \A i \in 1 .. 3 : ~Usable(OutcomeOf(StrategyOrder[i]))

\* C8 witness: the remote strategy succeeded and its mapping was returned
\* although the heuristic strategy gives a different usable mapping.
C8_Witness ==
  /\ call.pc = "returned"
  /\ call.net.status_code = 200
  /\ call.tried = <<"_trace_calltracer">>
  /\ call.result = RemoteOutcome.value
  /\ Usable(HeuristicOutcome)
  /\ HeuristicOutcome.value # call.result

RemoteFailed ==
  \/ call.net.kind = "exception"
  \/ call.net.kind = "response" /\ call.net.status_code # 200

\* C9: when the remote strategy fails (status other than 200, exception or
\* timeout) the call returns the heuristic strategy's non-empty mapping,
\* never the failure value.
C9_RemoteFailureFallsBack ==
  (call.pc = "returned" /\ RemoteFailed) =>
    /\ call.result.kind = "dict"
    /\ DOMAIN call.result.value # {}
    /\ {"Number", "Country", "Network Type"} \subseteq DOMAIN call.result.value
    /\ "Format" \notin DOMAIN call.result.value
    /\ call.result.value["Number"] = call.cleaned_number
    /\ call.result = HeuristicOutcome.value
    /\ call.tried = <<"_trace_calltracer", "_trace_truecaller_info">>

\* C9 witness: "+911234567890" with a timed-out remote call is answered by
\* the heuristic mapping (India).
C9_Witness ==
  /\ call.pc = "returned"
  /\ call.cleaned_number = <<"+", "9", "1", "1", "2", "3", "4", "5", "6", "7", "8", "9", "0">>
  /\ call.net.kind = "exception"
  /\ call.net.what = "Timeout"
  /\ call.result.kind = "dict"
  /\ call.result.value["Country"] = Literal.India
  /\ call.result.value["Region"] = Literal.Unknown_Region

\* C10 (as claimed): once the call is cancelled no further strategy is run,
\* no mapping is returned and the outbound call is no longer running.
C10_CancelReleasesCall ==
  call.pc = "cancelled" =>
    /\ call.tried = <<>>
    /\ call.result = NoResult
    /\ call.worker # "running"

\* a call returned after a response with status 200
RemoteParsed ==
  /\ call.pc = "returned"
  /\ call.net.kind = "response"
  /\ call.net.status_code = 200

\* C12 (as claimed): after a response with status 200 the mapping returned
\* has the number key and all 18 labelled fields, and a label that is
\* absent, or has no value cell right after it, or whose extraction raises,
\* has the value "N/A".
C12_NoAdjacentCellIsNA ==
  RemoteParsed =>
    LET soup == call.net.body
        details == call.result.value
    IN /\ call.result.kind = "dict"
       /\ DOMAIN details = {"Number"} \cup DisplayNames
       /\ \A j \in DOMAIN fields :
            LET i == find(soup, fields[j][2])
            IN (\/ i = 0
                \/ soup[i].tag = "raises"
                \/ i = Len(soup)
                \/ soup[i + 1].tag # "td") => details[fields[j][1]] = Literal.NA

\* C12 (amended): after a response with status 200 the mapping returned
\* has exactly the number key (the cleaned number) and the 18 labelled
\* fields, none omitted; a label that is absent, or that no td element
\* follows anywhere in the document, or whose extraction raises, has the
\* value "N/A"; any other label has the cleaned text of the first td element
\* after it, whether or not that cell is next to it.
C12_FullFieldSet ==
  RemoteParsed =>
    LET soup == call.net.body
        details == call.result.value
    IN /\ call.result.kind = "dict"
       /\ DOMAIN details = {"Number"} \cup DisplayNames
       /\ Cardinality(DOMAIN details) = 19
       /\ details["Number"] = call.cleaned_number
       /\ \A j \in DOMAIN fields :
            LET i == find(soup, fields[j][2])
                later == {m \in DOMAIN soup : m > i /\ soup[m].tag = "td"}
            IN IF i = 0 \/ later = {} THEN details[fields[j][1]] = Literal.NA
               ELSE IF soup[i].tag = "raises" THEN details[fields[j][1]] = Literal.NA
               ELSE \E m \in later :
                      /\ \A n \in later : m <= n
                      /\ details[fields[j][1]] = clean_text(soup[m].text)

\* C12 witness: a document in which "Hometown" stands outside any cell and
\* is not followed by a cell of its own, "Complaints" is absent and the
\* extraction of "Country" raises: the mapping has "N/A" for the last two
\* and the text of a later cell for "Hometown".
C12_Witness ==
  /\ RemoteParsed
  /\ LET soup == call.net.body
         i == find(soup, "Hometown")
     IN /\ i > 0
        /\ i < Len(soup)
        /\ soup[i + 1].tag # "td"
        /\ find(soup, "Complaints") = 0
        /\ find(soup, "Country") > 0
        /\ call.result.value["Hometown"] = <<"J", "i", "o">>
        /\ call.result.value["Complaints"] = Literal.NA
        /\ call.result.value["Country"] = Literal.NA

\* C21: whenever the remote endpoint answers with status 200 the call
\* returns the remote strategy's mapping, which always holds the number key
\* and the 18 labelled fields, and runs neither local strategy; this is so
\* also when every labelled field is "N/A".
C21_SuccessShortCircuits ==
  RemoteParsed =>
    /\ call.tried = <<"_trace_calltracer">>
    /\ \A i \in DOMAIN call.tried :
         call.tried[i] \notin {"_trace_truecaller_info", "_trace_basic_info"}
    /\ call.result.kind = "dict"
    /\ call.result.value = _parse_calltracer_response(call.net.body, call.cleaned_number)
    /\ "Number" \in DOMAIN call.result.value
    /\ call.result.value["Number"] = call.cleaned_number
    /\ DOMAIN call.result.value # {}
    /\ call.result # HeuristicOutcome.value
    /\ call.result # BasicOutcome.value

\* C21 witness: a response with status 200 and a body holding no label at
\* all was answered by the remote mapping with all 18 fields "N/A", for a
\* number the heuristic strategy would have placed in India.
C21_Witness ==
  /\ RemoteParsed
  /\ call.net.body = BodyEmpty
  /\ call.tried = <<"_trace_calltracer">>
  /\ \A k \in DisplayNames : call.result.value[k] = Literal.NA
  /\ Cardinality(DisplayNames) = 18
  /\ HeuristicOutcome.value.value["Country"] = Literal.India

\* C27: whatever the number and whatever the outcome of the remote call,
\* a call of trace_phone_number never runs the basic-format strategy and
\* never returns the failure value: the heuristic strategy, second in the
\* list, returns a non-empty mapping for every number and raises nothing,
\* so the loop ends with it at the latest.
C27_BasicNeverRun ==
  /\ \A i \in DOMAIN call.tried : call.tried[i] # "_trace_basic_info"
  /\ Len(call.tried) <= 2
  /\ call.result # Unable
  /\ call.pc = "returned" =>
       /\ call.result.kind = "dict"
       /\ HeuristicOutcome.kind = "return"
       /\ HeuristicOutcome.value.kind = "dict"
       /\ DOMAIN HeuristicOutcome.value.value # {}
       /\ \/ call.result = HeuristicOutcome.value
          \/ RemoteOutcome.kind = "return" /\ call.result = RemoteOutcome.value
       /\ "Format" \notin DOMAIN call.result.value

\* C27 witness: the call for "12345", of no known country, returned after
\* the remote call failed with status 500: the heuristic mapping (country
\* Unknown) was returned and the basic-format strategy was not run.
C27_Witness ==
  /\ call.pc = "returned"
  /\ call.cleaned_number = <<"1", "2", "3", "4", "5">>
  /\ call.net.status_code = 500
  /\ call.tried = <<"_trace_calltracer", "_trace_truecaller_info">>
  /\ call.result.kind = "dict"
  /\ call.result.value["Country"] = Literal.Unknown

\* -------------------------------------------------------- command handlers
\* " ".join(context.args) of the updates: no argument, a valid one, an
\* invalid one
TraceArgs == { <<>>, <<"+", "9", "1", "1", "2", "3", "4", "5", "6", "7", "8", "9", "0">>, <<"1", "2", "3", "4", "5">> }

VehicleArgs == { <<>>, <<"m", "h", "0", "1", "a", "b", "1", "2", "3", "4">>, <<"1", "2", "3", "4">> }

\* /start and photo messages are handled without reading any argument
ArgsOf(kind) ==
  IF kind = "trace" THEN TraceArgs
  ELSE IF kind = "vehicle" THEN VehicleArgs
  ELSE {<<>>}

\* validate_phone_number(phone_number) / validate_vehicle_number(vehicle_number)
\* on the argument as the handler prepares it
Validated(kind, args) ==
  IF kind = "trace" THEN validate_phone_number(strip(args))
  ELSE validate_vehicle_number(upper(strip(args)))

\* the updates are numbered in the order in which their handlers start
Arrives(h) ==
  /\ hs[h].pc = "idle"
  /\ \A g \in Handlers : g < h => hs[g].pc # "idle"

\* the coroutine has returned: its locals are gone
Finished == [IdleHandler EXCEPT !.pc = "done"]

\* mutant: the handler validates its argument before the admission check and
\* rejects an invalid one without consulting the rate limiter
CommandEntry_ValidateFirst(h, kind, user, args) ==
  /\ Arrives(h)
  /\ IF args # <<>> /\ ~Validated(kind, args)
       THEN /\ hs' = [hs EXCEPT ![h] = [@ EXCEPT !.pc = "reply_invalid", !.kind = kind,
                                           !.user = user, !.args = args,
                                           !.trail = <<"invalid">>]]
            /\ UNCHANGED <<rate_limiter, log, lastCheck>>
       ELSE LET r == _check_rate_limit(rate_limiter, user, now, config)
            IN /\ DoCheck(user)
               /\ hs' = [hs EXCEPT ![h] =
                    [@ EXCEPT !.pc = IF r.allowed THEN "check_membership" ELSE "reply_rate_limit",
                              !.kind = kind, !.user = user, !.args = args,
                              !.trail = <<IF r.allowed THEN "admitted" ELSE "denied">>]]
  /\ UNCHANGED <<now, config, call>>

\* mutant: the admission is decided on the window as found but the request
\* is recorded only after the await, so the entry step reserves nothing
CommandEntry_CheckThenReserve(h, kind, user, args) ==
  /\ Arrives(h)
  /\ LET k == user_key(user)
         r == _check_rate_limit(rate_limiter, user, now, config)
     IN /\ rate_limiter' = [WithKey(rate_limiter, k) EXCEPT
                              ![k] = CleanOldEntries(WithKey(rate_limiter, k)[k], now, config)]
        /\ log' = [log EXCEPT ![k] = Append(@, [t |-> now, allowed |-> r.allowed])]
        /\ lastCheck' = [key |-> k, before |-> WindowOf(rate_limiter, k)]
        /\ hs' = [hs EXCEPT ![h] =
             [@ EXCEPT !.pc = IF r.allowed THEN "check_membership" ELSE "reply_rate_limit",
                       !.kind = kind, !.user = user, !.args = args,
                       !.trail = <<IF r.allowed THEN "admitted" ELSE "denied">>]]
  /\ UNCHANGED <<now, config, call>>

\* trace_command / vehicle_command from their start to the first await: the
\* admission check, then either the rate-limit reply or the membership check
HandlerStart(h, kind, user, args) ==
  LET r == _check_rate_limit(rate_limiter, user, now, config)
  IN /\ DoCheck(user)
     /\ hs' = [hs EXCEPT ![h] =
          [@ EXCEPT !.pc = IF r.allowed THEN "check_membership" ELSE "reply_rate_limit",
                    !.kind = kind, !.user = user, !.args = args,
                    !.trail = <<IF r.allowed THEN "admitted" ELSE "denied">>]]
     /\ UNCHANGED <<now, config, call>>

\* a handler invocation begins: the handlers run as coroutines of one event
\* loop and are taken here as dispatched concurrently, each starting while
\* earlier ones may be suspended at an await
CommandEntry(h, kind, user, args) ==
  /\ Arrives(h)
  /\ HandlerStart(h, kind, user, args)

trace_command(h) ==
  \E user \in UserIds, args \in TraceArgs : CommandEntry(h, "trace", user, args)

vehicle_command(h) ==
  \E user \in UserIds, args \in VehicleArgs : CommandEntry(h, "vehicle", user, args)

\* mutant: the handler goes on to the lookup whatever the validator says
AfterMembership_NoValidation(x, member) ==
  IF ~member
    THEN [x EXCEPT !.pc = "reply_membership", !.trail = Append(@, "not_member")]
  ELSE IF x.args = <<>>
    THEN [x EXCEPT !.pc = "reply_usage", !.trail = Append(@, "member") \o <<"no_args">>]
  ELSE [x EXCEPT !.pc = "reply_processing",
                 !.trail = Append(@, "member")
                           \o <<IF Validated(x.kind, x.args) THEN "valid" ELSE "invalid">>]

\* the handler from the return of _check_user_membership to its next await:
\* the membership reply, the usage reply, the invalid-format reply or the
\* "please wait" message; start_command goes on to its welcome message and
\* photo_handler to the processing of the image (its messages, the download
\* and the extraction are taken as one reply)
AfterMembership(x, member) ==
  IF ~member
    THEN [x EXCEPT !.pc = "reply_membership", !.trail = Append(@, "not_member")]
  ELSE IF x.kind = "start"
    THEN [x EXCEPT !.pc = "reply_welcome", !.trail = Append(@, "member")]
  ELSE IF x.kind = "photo"
    THEN [x EXCEPT !.pc = "reply_image", !.trail = Append(@, "member")]
  ELSE IF x.args = <<>>
    THEN [x EXCEPT !.pc = "reply_usage", !.trail = Append(@, "member") \o <<"no_args">>]
  ELSE IF ~Validated(x.kind, x.args)
    THEN [x EXCEPT !.pc = "reply_invalid", !.trail = Append(@, "member") \o <<"invalid">>]
  ELSE [x EXCEPT !.pc = "reply_processing", !.trail = Append(@, "member") \o <<"valid">>]

\* mutant: a request rejected after its admission gives its slot back
MembershipChecked_RefundRejected(h) ==
  /\ hs[h].pc = "check_membership"
  /\ \E member \in BOOLEAN :
       LET x == AfterMembership(hs[h], member)
           k == user_key(hs[h].user)
       IN /\ hs' = [hs EXCEPT ![h] = x]
          /\ rate_limiter' =
               IF x.pc \in {"reply_membership", "reply_usage", "reply_invalid"}
                 THEN [rate_limiter EXCEPT ![k] = SubSeq(@, 1, Len(@) - 1)]
                 ELSE rate_limiter
  /\ UNCHANGED <<now, config, log, lastCheck, call>>

\* await self._check_user_membership(context, user.id) returns
MembershipChecked(h) ==
  /\ hs[h].pc = "check_membership"
  /\ \E member \in BOOLEAN : hs' = [hs EXCEPT ![h] = AfterMembership(@, member)]
  /\ UNCHANGED <<rateVars, call>>

FinalReplies ==
  {"reply_rate_limit", "reply_membership", "reply_usage", "reply_invalid", "reply_result",
   "reply_welcome", "reply_image"}

\* a reply that ends the handler has been sent
ReplySent(h) ==
  /\ hs[h].pc \in FinalReplies
  /\ hs' = [hs EXCEPT ![h] = Finished]
  /\ UNCHANGED <<rateVars, call>>

\* the "please wait" message has been sent and the resolver is called:
\* trace_phone_number runs to the await of its remote call,
\* lookup_vehicle_info (which awaits nothing) runs to its return
ProcessingSent(h) ==
  /\ hs[h].pc = "reply_processing"
  /\ hs' = [hs EXCEPT ![h] =
       IF @.kind = "trace"
         THEN [@ EXCEPT !.pc = "remote_inflight", !.trail = Append(@, "resolver"),
                        !.call = TraceBegin(@, strip(hs[h].args))]
         ELSE [@ EXCEPT !.pc = "reply_result", !.trail = Append(@, "resolver"),
                        !.result = lookup_vehicle_info(upper(strip(hs[h].args)))]]
  /\ UNCHANGED <<rateVars, call>>

\* a thread of the executor runs the remote call to its end,
\* trace_phone_number returns and the result is sent
HandlerRemoteDone(h) ==
  /\ hs[h].pc = "remote_inflight"
  /\ hs[h].call.worker = "queued"
  /\ \E net \in HandlerNetOutcomes :
       LET c == TraceResume(hs[h].call, net)
       IN hs' = [hs EXCEPT ![h] = [@ EXCEPT !.pc = "reply_result", !.call = c,
                                            !.result = c.result]]
  /\ UNCHANGED <<rateVars, call>>

\* an awaited reply raises: the except clause logs the error and sends the
\* error message (_send_error_message swallows its own failure)
ReplyFailed(h) ==
  /\ hs[h].pc \in FinalReplies \cup {"reply_processing"}
  /\ hs' = [hs EXCEPT ![h] = [@ EXCEPT !.pc = "send_error", !.trail = Append(@, "error")]]
  /\ UNCHANGED <<rateVars, call>>

ErrorSent(h) ==
  /\ hs[h].pc = "send_error"
  /\ hs' = [hs EXCEPT ![h] = Finished]
  /\ UNCHANGED <<rateVars, call>>

InitBot ==
  /\ now = 0
  /\ config \in Configs
  /\ rate_limiter = <<>>
  /\ log = [k \in UserKeys |-> <<>>]
  /\ lastCheck = NoCheck
  /\ call = IdleCall
  /\ hs = [h \in Handlers |-> IdleHandler]

\* time passes while handlers are running
BotTick ==
  /\ now < MaxBotTime
  /\ now' = now + 1
  /\ UNCHANGED <<config, rate_limiter, log, lastCheck, call, hs>>

NextBot ==
  \/ BotTick
  \/ \E h \in Handlers :
       \/ trace_command(h)
       \/ vehicle_command(h)
       \/ MembershipChecked(h)
       \/ ReplySent(h)
       \/ ProcessingSent(h)
       \/ HandlerRemoteDone(h)
       \/ ReplyFailed(h)
       \/ ErrorSent(h)

SpecBot == InitBot /\ [][NextBot]_vars

\* ---------------------------------------------- command handlers: properties
Did(x, e) == \E i \in DOMAIN x.trail : x.trail[i] = e

InFlight(x) == x.pc \notin {"idle", "done"}

\* the timestamps _check_rate_limit has recorded for a key and not yet
\* discarded: those of its admitted checks inside the window of its last
\* check, and that of the last check when it was admitted
Reserved(k) ==
  LET n == Len(log[k])
      Live(e) == e.allowed /\ e.t > LastEntry(k).t - config.RATE_LIMIT_WINDOW
      live == SelectSeq(SubSeq(log[k], 1, n - 1), Live)
              \o (IF LastEntry(k).allowed THEN <<LastEntry(k)>> ELSE <<>>)
  IN [i \in DOMAIN live |-> live[i].t]

\* C5: however the handlers interleave at their awaits, every admission
\* check prunes, tests and records in one step: the window of a key holds
\* the timestamp of each of its admitted requests (none is lost), no check
\* has more than max_requests admitted requests of its key in its trailing
\* window, and handlers of one user that are running as admitted each hold
\* a slot of their own.
C5_AtomicAdmission ==
  \A k \in UserKeys :
    /\ k \in DOMAIN rate_limiter <=> log[k] # <<>>
    /\ log[k] # <<>> => rate_limiter[k] = Reserved(k)
    /\ \A j \in DOMAIN log[k] :
         Cardinality(AdmittedIn(k, j, log[k][j].t - config.RATE_LIMIT_WINDOW, log[k][j].t))
           <= config.RATE_LIMIT_REQUESTS
    /\ Cardinality({h \in Handlers : /\ InFlight(hs[h])
                                     /\ user_key(hs[h].user) = k
                                     /\ Did(hs[h], "admitted")})
         <= Cardinality(AdmittedIn(k, Len(log[k]), 0 - 1, now))

\* C5 witness: with max_requests = 1 a request arrived while another request
\* of the same user was suspended in its remote call, and it was denied.
C5_Witness ==
  \E g, h \in Handlers :
    /\ g # h
    /\ config.RATE_LIMIT_REQUESTS = 1
    /\ hs[g].user = hs[h].user
    /\ hs[g].pc = "remote_inflight"
    /\ Did(hs[g], "admitted")
    /\ hs[h].pc = "reply_rate_limit"
    /\ Did(hs[h], "denied")

\* C6: a resolver is called for a request only if the rate limiter admitted
\* it and the validator accepted its argument; a request that was denied or
\* whose argument is invalid gets its reply and no resolver call, and no
\* request is checked or resolved twice.
C6_ResolverGuarded ==
  \A h \in Handlers :
    LET x == hs[h]
        k == user_key(x.user)
    IN /\ (Did(x, "resolver") \/ x.call # IdleCall \/ x.result # NoResult) =>
            /\ x.trail[1] = "admitted"
            /\ \E j \in DOMAIN log[k] : log[k][j].allowed
            /\ x.args # <<>>
            /\ IF x.kind = "trace" THEN validate_phone_number(x.args)
                                   ELSE validate_vehicle_number(upper(x.args))
       /\ (Did(x, "denied") \/ Did(x, "invalid")) =>
            /\ ~Did(x, "resolver")
            /\ x.call = IdleCall
            /\ x.result = NoResult
            /\ x.pc \in {"reply_rate_limit", "reply_invalid", "send_error"}
       /\ Cardinality({i \in DOMAIN x.trail : x.trail[i] \in {"admitted", "denied"}}) <= 1
       /\ Cardinality({i \in DOMAIN x.trail : x.trail[i] = "resolver"}) <= 1

\* C6 witness: one request reached its resolver while another one, denied by
\* the rate limiter, is being answered without any resolver call.
C6_Witness ==
  \E g, h \in Handlers :
    /\ Did(hs[g], "resolver")
    /\ hs[g].result.kind = "dict"
    /\ Did(hs[h], "denied")
    /\ hs[h].pc = "reply_rate_limit"

\* C7 (as claimed): the validator runs before the admission check and the
\* admission check before the resolver: a request is checked by the rate
\* limiter only after its argument passed validation, and a request rejected
\* as invalid has gone through no admission check.
C7_ValidatorBeforeLimiter ==
  \A h \in Handlers :
    LET x == hs[h]
    IN /\ \A i \in DOMAIN x.trail :
            x.trail[i] \in {"admitted", "denied"} => \E j \in 1 .. (i - 1) : x.trail[j] = "valid"
       /\ Did(x, "invalid") => ~Did(x, "admitted") /\ ~Did(x, "denied")
       /\ \A i \in DOMAIN x.trail :
            x.trail[i] = "resolver" => \E j \in 1 .. (i - 1) : x.trail[j] = "admitted"

\* C7 (amended): the admission check runs before the validator and the
\* validator before the resolver: a request reaches the validator only
\* after it was admitted, the resolver only after its argument was accepted,
\* and a request rejected as invalid has gone through an admission check
\* that recorded it.
C7_LimiterBeforeValidator ==
  \A h \in Handlers :
    LET x == hs[h]
        k == user_key(x.user)
    IN /\ \A i \in DOMAIN x.trail :
            x.trail[i] \in {"valid", "invalid"} => i > 1 /\ x.trail[1] = "admitted"
       /\ \A i \in DOMAIN x.trail :
            x.trail[i] = "resolver" => \E j \in 1 .. (i - 1) : x.trail[j] = "valid"
       /\ Did(x, "invalid") => \E j \in DOMAIN log[k] : log[k][j].allowed

\* C7 witness: a request with an invalid argument is being rejected after
\* the rate limiter admitted it and recorded its timestamp.
C7_Witness ==
  \E h \in Handlers :
    /\ hs[h].pc = "reply_invalid"
    /\ hs[h].trail = <<"admitted", "member", "invalid">>
    /\ rate_limiter[user_key(hs[h].user)] # <<>>

\* ------------------------------------------------ the application's dispatch
\* a handler coroutine that has started and not yet returned
Running(x) == x.pc \notin {"idle", "queued", "done"}

\* Updater.start_polling: a received update is put into the application's
\* update queue; polling goes on while handlers are suspended
UpdateReceived(h) ==
  /\ Arrives(h)
  /\ \E kind \in {"start", "trace", "vehicle", "photo"}, user \in UserIds :
       \E args \in ArgsOf(kind) :
         hs' = [hs EXCEPT ![h] = [@ EXCEPT !.pc = "queued", !.kind = kind,
                                          !.user = user, !.args = args]]
  /\ UNCHANGED <<rateVars, call>>

\* The application is built by Application.builder().token(...).build() and
\* every handler is added with its default blocking mode: updates are taken
\* from the queue one at a time, in order, and the handler's coroutine is
\* awaited to its return before the next update is taken.
process_update(h) ==
  /\ hs[h].pc = "queued"
  /\ \A g \in Handlers : g < h => hs[g].pc # "queued"
  /\ \A g \in Handlers : ~Running(hs[g])
  /\ HandlerStart(h, hs[h].kind, hs[h].user, hs[h].args)

InitDispatch ==
  /\ now = 0
  /\ config \in Configs
  /\ rate_limiter = <<>>
  /\ log = [k \in UserKeys |-> <<>>]
  /\ lastCheck = NoCheck
  /\ call = IdleCall
  /\ hs = [h \in Handlers |-> IdleHandler]

NextDispatch ==
  \/ BotTick
  \/ \E h \in Handlers :
       \/ UpdateReceived(h)
       \/ process_update(h)
       \/ MembershipChecked(h)
       \/ ReplySent(h)
       \/ ProcessingSent(h)
       \/ HandlerRemoteDone(h)
       \/ ReplyFailed(h)
       \/ ErrorSent(h)

SpecDispatch == InitDispatch /\ [][NextDispatch]_vars

\* C11 (as claimed): while the remote call of one request is in flight, the
\* request of another user that is next in the queue is not held back: its
\* handler can start (run its admission check and go on to its lookup and
\* its reply) before the in-flight call returns.
C11_OthersNotBlocked ==
  \A g, h \in Handlers :
    (/\ hs[g].pc = "remote_inflight"
     /\ hs[h].pc = "queued"
     /\ hs[h].user # hs[g].user
     /\ \A f \in Handlers : f < h => hs[f].pc # "queued")
    => ENABLED process_update(h)

\* a request that was admitted and then rejected: no membership, no
\* argument or an invalid argument
Rejected(x) ==
  /\ x.trail # <<>>
  /\ x.trail[1] = "admitted"
  /\ Did(x, "not_member") \/ Did(x, "no_args") \/ Did(x, "invalid")

\* C30: an identity has one window, shared by the handlers of /start,
\* /trace, /vehicle and photo messages.  The handler of a request of any of
\* these kinds is admitted exactly when fewer than max_requests admitted
\* requests of its identity, of whatever kind and whatever became of them,
\* lie in its trailing window, and an admitted one takes one more slot of
\* that window; the slot is taken at admission and stays taken while the
\* request is rejected for missing membership, missing arguments or an
\* invalid argument.
C30_SharedWindow ==
  /\ [](\A h \in Handlers :
          LET x == hs[h]
              k == user_key(x.user)
          IN /\ DOMAIN rate_limiter \subseteq UserKeys
             /\ (Running(x) /\ x.trail[1] = "admitted") =>
                  /\ x.kind \in {"start", "trace", "vehicle", "photo"}
                  /\ k \in DOMAIN rate_limiter
                  /\ rate_limiter[k] # <<>>
                  /\ LastEntry(k).allowed
                  /\ rate_limiter[k][Len(rate_limiter[k])] = LastEntry(k).t
                  /\ rate_limiter[k] = Reserved(k))
  /\ [][\A h \in Handlers :
          (hs[h].pc = "queued" /\ hs'[h].pc # "queued") =>
            LET k == user_key(hs[h].user)
                held == AdmittedIn(k, Len(log[k]), now - config.RATE_LIMIT_WINDOW, now)
            IN /\ hs'[h].trail = <<IF Cardinality(held) >= config.RATE_LIMIT_REQUESTS
                                    THEN "denied" ELSE "admitted">>
               /\ Len(log'[k]) = Len(log[k]) + 1
               /\ Len(rate_limiter'[k]) =
                    Cardinality(held) + (IF hs'[h].trail = <<"admitted">> THEN 1 ELSE 0)]_vars

\* C30 witness: with max_requests = 1, a photo message was admitted and is
\* being rejected for missing channel membership; its slot fills the window
\* of its sender, whose valid /trace request, next in the queue, is denied
\* by the admission check as the window stands.
C30_Witness ==
  \E g, h \in Handlers :
    /\ config.RATE_LIMIT_REQUESTS = 1
    /\ hs[g].kind = "photo"
    /\ hs[g].pc = "reply_membership"
    /\ Rejected(hs[g])
    /\ hs[h].pc = "queued"
    /\ hs[h].kind = "trace"
    /\ hs[h].user = hs[g].user
    /\ hs[h].args # <<>>
    /\ validate_phone_number(hs[h].args)
    /\ rate_limiter[user_key(hs[g].user)] = <<now>>
    /\ ~_check_rate_limit(rate_limiter, hs[h].user, now, config).allowed

\* ------------------------------------------- the functions on their own
\* the strings given to validate_phone_number: an optional prefix, a run of
\* at most MaxDigits digits and, possibly, one more character put somewhere
\* into the run
PhonePrefixes == { <<>>, <<"+">>, <<"+", "9", "1">>, <<"+", "1">>, <<" ", "+">> }

DigitRun(n) == [i \in 1 .. n |-> "7"]

PhoneStrings ==
  { pre \o DigitRun(n) : pre \in PhonePrefixes, n \in 0 .. MaxDigits }
  \cup { pre \o DigitRun(k) \o <<c>> \o DigitRun(n - k) :
           pre \in PhonePrefixes, c \in {"+", " ", "-", "a", "u0663", "\n"},
           k \in {0, 4, 9, 10}, n \in 10 .. 11 }

\* the strings given to validate_vehicle_number and lookup_vehicle_info: a
\* region, a district, a series and a serial of various lengths, and some
\* of them in lower case, with a hyphen after the region and with a space
\* or a newline at the end
VehicleRegions == { <<>>, <<"M", "H">>, <<"X", "Y">>, <<"A", "P">>, <<"M">>, <<"M", "H", "A">> }

VehicleDistricts == { <<>>, <<"1">>, <<"0", "1">>, <<"9", "9">>, <<"0", "1", "2">>, <<"u0663">> }

VehicleSeries ==
  { <<>>, <<"A">>, <<"A", "B">>, <<"E", "F">>, <<"P", "Q">>, <<"T", "U">>, <<"Z", "Z">>, <<"K", "L">>, <<"A", "B", "C">> }

VehicleSerials ==
  { <<>>, <<"1">>, <<"9", "9", "9">>, <<"1", "0", "0", "0">>, <<"1", "2", "3", "4">>, <<"4", "9", "9", "9">>, <<"5", "0", "0", "0">>, <<"9", "0", "0", "0">>, <<"9", "9", "9", "9">>, <<"1", "2", "3", "4", "5">> }

VehicleStrings ==
  { r \o d \o x \o n :
      r \in VehicleRegions, d \in VehicleDistricts, x \in VehicleSeries, n \in VehicleSerials }
  \cup { r \o sep \o d \o x \o n \o end :
           r \in {<<"M", "H">>, <<"m", "h">>}, sep \in {<<>>, <<"-">>},
           d \in {<<"1">>, <<"0", "1">>}, x \in {<<"A">>, <<"a", "b">>},
           n \in {<<"1">>, <<"1", "2", "3", "4">>}, end \in {<<>>, <<" ">>, <<"\n">>} }
  \cup { <<"M", "H", "0", "1">> \o x \o <<"1", "2", "3", "4">> :
           x \in {<<a>> : a \in UpperLetters} \cup {<<a, b>> : a, b \in UpperLetters} }
  \cup { <<"M", "H", "0", "1", "A", "B">> \o n :
           n \in { <<"0">>, <<"0", "0", "0", "0">>, <<"0", "9", "9", "9">>, <<"8", "9", "9", "9">>,
                   <<"0", "0", "1", "0">>, <<"u0663">>, <<"9", "u0663", "0", "0">> } }

Bool(b) == [kind |-> "bool", value |-> b]

\* a function is applied to one argument: the function's name, the
\* argument and the value returned are kept in the first handler record
Applied(name, arg, value) ==
  /\ hs[1].pc = "idle"
  /\ hs' = [hs EXCEPT ![1] = [IdleHandler EXCEPT !.pc = name, !.args = arg, !.result = value]]
  /\ UNCHANGED <<rateVars, call>>

ValidatePhone ==
  \E s \in PhoneStrings : Applied("validate_phone_number", s, Bool(validate_phone_number(s)))

ValidateVehicle ==
  \E s \in VehicleStrings : Applied("validate_vehicle_number", s, Bool(validate_vehicle_number(s)))

\* vehicle_info = await self.tracing_service.lookup_vehicle_info(vehicle_number)
LookupVehicle ==
  \E s \in VehicleStrings : Applied("lookup_vehicle_info", s, lookup_vehicle_info(s))

\* normalized numbers (digits and '+' only) given to the local strategies:
\* a prefix, a leading digit, a run of digits and a suffix, and two numbers
\* with "+91" inside
NormalizedNumbers ==
  { pre \o lead \o DigitRun(n) \o suffix :
      pre \in { <<>>, <<"+">>, <<"+", "9", "1">>, <<"+", "1">>, <<"+", "4", "4">>,
                <<"+", "9", "1", "+", "9", "1">> },
      lead \in { <<>>, <<"5">>, <<"6">>, <<"7">>, <<"8">>, <<"9">>, <<"u0663">> },
      n \in {0, 4, 5, 8, 9},
      suffix \in { <<>>, <<"0", "0", "0", "0">>, <<"1", "1", "1", "1">>,
                   <<"2", "2", "2", "2">>, <<"3", "3", "3", "3">> } }
  \cup { <<"9", "+", "9", "1", "2", "3", "4", "5", "6", "7">>,
         <<"9", "8", "7", "6", "5", "4", "3", "2", "1", "0", "+", "9", "1">> }

\* the normalized numbers given to _trace_basic_info: those of the calls of
\* trace_phone_number and numbers ending in four equal digits
BasicInputs ==
  {clean_phone(p) : p \in PhoneInputs}
  \cup {DigitRun(6) \o <<c, c, c, c>> : c \in {"0", "1", "2", "3", "9"}}
  \cup NormalizedNumbers

\* result = await method(cleaned_number) for the basic-format strategy
BasicInfo ==
  \E s \in BasicInputs : Applied("_trace_basic_info", s, _trace_basic_info(s).value)

\* result = await method(cleaned_number) for the heuristic strategy
HeuristicInfo ==
  \E s \in BasicInputs :
    Applied("_trace_truecaller_info", s,
            IF _trace_truecaller_info(s).kind = "return" THEN _trace_truecaller_info(s).value
            ELSE Message("raised"))

NextPure ==
  \/ ValidatePhone
  \/ ValidateVehicle
  \/ LookupVehicle
  \/ BasicInfo
  \/ HeuristicInfo

SpecPure == InitTrace /\ [][NextPure]_vars

\* ----------------------------------------------- the functions: properties
\* the five accepted forms of a normalized phone string
PhoneForm(x) ==
  LET n == Len(x)
      DigitsFrom(i) == \A j \in i .. n : IsDigit(x[j])
  IN \/ n >= 11 /\ n <= 16 /\ x[1] = "+" /\ DigitsFrom(2)
     \/ n = 10 /\ DigitsFrom(1)
     \/ n = 11 /\ DigitsFrom(1)
     \/ n = 13 /\ SubSeq(x, 1, 3) = <<"+", "9", "1">> /\ DigitsFrom(4)
     \/ n = 12 /\ SubSeq(x, 1, 2) = <<"+", "1">> /\ DigitsFrom(3)

\* C13 (as claimed): validate_phone_number(s) is true exactly when s with
\* everything removed but its digits and a leading '+' (a later '+' is
\* stripped) has one of the five accepted forms.
C13_LaterPlusStripped ==
  hs[1].pc = "validate_phone_number" =>
    (hs[1].result.value <=> PhoneForm(clean_phone_LeadingPlusOnly(hs[1].args)))

\* C13 (amended): validate_phone_number(s) is true exactly when s with
\* everything removed but its digits and every '+' has one of the five
\* accepted forms; a '+' that comes after a digit or after another '+' is
\* kept and makes the validator reject the string.
C13_EveryPlusKept ==
  hs[1].pc = "validate_phone_number" =>
    LET s == hs[1].args
        Kept(c) == IsDigit(c) \/ c = "+"
    IN /\ hs[1].result.value <=> PhoneForm(SelectSeq(s, Kept))
       /\ (\E i, j \in DOMAIN s : i < j /\ Kept(s[i]) /\ s[j] = "+") => ~hs[1].result.value

\* C13 witness: ten digits with a '+' between them are rejected, although
\* without that '+' they are a valid bare number.
C13_Witness ==
  /\ hs[1].pc = "validate_phone_number"
  /\ hs[1].args = DigitRun(4) \o <<"+">> \o DigitRun(6)
  /\ ~hs[1].result.value
  /\ PhoneForm(DigitRun(10))

\* the vehicle grammar on a normalized string: 2 letters, 1 or 2 digits, 1 or
\* 2 letters, 1 to 4 digits and nothing else
VehicleForm(x) ==
  \E d \in 1 .. 2, l \in 1 .. 2, n \in 1 .. 4 :
    /\ Len(x) = 2 + d + l + n
    /\ \A i \in 1 .. 2 : x[i] \in UpperLetters
    /\ \A i \in 3 .. (2 + d) : IsDigit(x[i])
    /\ \A i \in (3 + d) .. (2 + d + l) : x[i] \in UpperLetters
    /\ \A i \in (3 + d + l) .. Len(x) : IsDigit(x[i])

\* C14 (as claimed): validate_vehicle_number(s) is true exactly when s,
\* with its spaces and hyphens removed and upper-cased, is 2 letters, 1 or 2
\* digits, 1 or 2 letters and 1 to 4 digits and nothing else; the empty
\* string is rejected.
C14_ExactVehicleGrammar ==
  hs[1].pc = "validate_vehicle_number" =>
    /\ hs[1].result.value <=> VehicleForm(remove(remove(upper(hs[1].args), <<" ">>), <<"-">>))
    /\ hs[1].args = <<>> => ~hs[1].result.value

\* a lookup was made of a string whose normalized form is in the grammar
GrammarLookup ==
  /\ hs[1].pc = "lookup_vehicle_info"
  /\ VehicleForm(clean_vehicle(hs[1].args))

\* C15: for a string of the grammar the parse gives the 2 leading letters
\* as region, the 1 or 2 digits after them as district (as written), the 1
\* or 2 letters after those as series and the last 1 to 4 digits as serial,
\* which together are the normalized input, and the office code is the
\* region followed by the district padded with zeros to two digits; the
\* record carries that office code, series and serial.
C15_ParsedFields ==
  GrammarLookup =>
    LET x == clean_vehicle(hs[1].args)
        p == _parse_vehicle_number(x)
        record == hs[1].result.value
    IN /\ p.matched
       /\ p.state_code = SubSeq(x, 1, 2)
       /\ Len(p.district_code) \in 1 .. 2 /\ \A i \in DOMAIN p.district_code : IsDigit(p.district_code[i])
       /\ Len(p.series) \in 1 .. 2 /\ \A i \in DOMAIN p.series : p.series[i] \in UpperLetters
       /\ Len(p.number) \in 1 .. 4 /\ \A i \in DOMAIN p.number : IsDigit(p.number[i])
       /\ p.state_code \o p.district_code \o p.series \o p.number = x
       /\ p.rto_code = p.state_code \o (IF Len(p.district_code) = 1 THEN <<"0">> ELSE <<>>)
                                     \o p.district_code
       /\ Len(p.rto_code) = 4
       /\ hs[1].result.kind = "dict"
       /\ record["RTO Code"] = p.rto_code
       /\ record["Series"] = p.series
       /\ record["Number"] = p.number
       /\ x = <<"M", "H", "0", "1", "A", "B", "1", "2", "3", "4">> =>
            /\ p.state_code = <<"M", "H">> /\ p.district_code = <<"0", "1">>
            /\ p.series = <<"A", "B">> /\ p.number = <<"1", "2", "3", "4">>
            /\ p.rto_code = <<"M", "H", "0", "1">>

\* C15 witness: "MH1AB1234", with a one-digit district, was looked up and
\* its office code is "MH01".
C15_Witness ==
  /\ GrammarLookup
  /\ clean_vehicle(hs[1].args) = <<"M", "H", "1", "A", "B", "1", "2", "3", "4">>
  /\ hs[1].result.value["RTO Code"] = <<"M", "H", "0", "1">>
  /\ hs[1].result.value["Registration Region"] = <<"M", "H", "-", "1">>

\* C16: resolving the registration number of a returned record again gives
\* the same record; every string of the grammar gets a record, whose
\* registration number is its normalized form.
C16_LookupIdempotent ==
  hs[1].pc = "lookup_vehicle_info" =>
    /\ GrammarLookup =>
         /\ hs[1].result.kind = "dict"
         /\ hs[1].result.value["Registration Number"] = clean_vehicle(hs[1].args)
    /\ hs[1].result.kind = "dict" =>
         lookup_vehicle_info(hs[1].result.value["Registration Number"]) = hs[1].result

\* C16 witness: "mh-1ab1234 " was looked up; the record holds "MH1AB1234",
\* which differs from the input and resolves to the same record.
C16_Witness ==
  /\ GrammarLookup
  /\ hs[1].args = <<"m", "h", "-", "1", "a", "b", "1", "2", "3", "4", " ">>
  /\ hs[1].result.value["Registration Number"] = <<"M", "H", "1", "A", "B", "1", "2", "3", "4">>
  /\ lookup_vehicle_info(<<"M", "H", "1", "A", "B", "1", "2", "3", "4">>) = hs[1].result

\* C17: the patterns are tried in the order 1, 2, 3 and the first that
\* matches is the one used: a string matching pattern 1 (and then pattern 2
\* and 3 as well) is parsed by pattern 1, one matching pattern 2 but not 1
\* by pattern 2, and pattern 3 is used only when neither 1 nor 2 matches;
\* a string matching none is not parsed.
C17_FirstPatternWins ==
  hs[1].pc = "lookup_vehicle_info" =>
    LET x == clean_vehicle(hs[1].args)
        p == _parse_vehicle_number(x)
        M1 == VehicleMatch(x, 2, 2, 4, 4).matched
        M2 == VehicleMatch(x, 2, 2, 1, 4).matched
        M3 == VehicleMatch(x, 1, 2, 1, 4).matched
    IN /\ M1 => M2 /\ p.matched /\ p.pattern = <<2, 2, 4, 4>>
       /\ (M2 /\ ~M1) => p.matched /\ p.pattern = <<2, 2, 1, 4>>
       /\ (M3 /\ ~M1 /\ ~M2) => p.matched /\ p.pattern = <<1, 2, 1, 4>>
       /\ (p.matched /\ p.pattern = <<1, 2, 1, 4>>) => ~M1 /\ ~M2
       /\ p.matched <=> (M1 \/ M2 \/ M3)

\* C17 witness: "MH01AB1234", which all three patterns match, was looked
\* up and parsed by pattern 1.
C17_Witness ==
  /\ hs[1].pc = "lookup_vehicle_info"
  /\ hs[1].args = <<"M", "H", "0", "1", "A", "B", "1", "2", "3", "4">>
  /\ VehicleMatch(hs[1].args, 2, 2, 1, 4).matched
  /\ VehicleMatch(hs[1].args, 1, 2, 1, 4).matched
  /\ _parse_vehicle_number(hs[1].args).pattern = <<2, 2, 4, 4>>
  /\ hs[1].result.kind = "dict"

\* C18: a lookup of a string of the grammar always returns a record; its
\* region name is that of the region table, or "Unknown State" when the
\* region code is not in the table, and its office name is that of the
\* office table, or "Unknown RTO" when the office code is not in the
\* table, each whatever the other is ("XY99ZZ9999" has both sentinels).
C18_UnknownKeysDegrade ==
  GrammarLookup =>
    LET x == clean_vehicle(hs[1].args)
        record == hs[1].result.value
        region == SubSeq(x, 1, 2)
        office == record["RTO Code"]
    IN /\ hs[1].result.kind = "dict"
       /\ {"State", "RTO Office"} \subseteq DOMAIN record
       /\ IF region \in DOMAIN state_codes
            THEN record["State"] = state_codes[region] /\ record["State"] # Literal.Unknown_State
            ELSE record["State"] = Literal.Unknown_State
       /\ IF office \in DOMAIN rto_offices
            THEN record["RTO Office"] = rto_offices[office] /\ record["RTO Office"] # Literal.Unknown_RTO
            ELSE record["RTO Office"] = Literal.Unknown_RTO
       /\ x = <<"X", "Y", "9", "9", "Z", "Z", "9", "9", "9", "9">> =>
            /\ record["State"] = <<"U", "n", "k", "n", "o", "w", "n", " ", "S", "t", "a", "t", "e">>
            /\ record["RTO Office"] = <<"U", "n", "k", "n", "o", "w", "n", " ", "R", "T", "O">>

\* C18 witness: "MH99AB1234" was looked up: its region is in the region
\* table, its office code "MH99" is not in the office table, and the record
\* has the region's name and the office sentinel.
C18_Witness ==
  /\ GrammarLookup
  /\ hs[1].args = <<"M", "H", "9", "9", "A", "B", "1", "2", "3", "4">>
  /\ <<"M", "H">> \in DOMAIN state_codes
  /\ <<"M", "H", "9", "9">> \notin DOMAIN rto_offices
  /\ hs[1].result.value["State"] = state_codes[<<"M", "H">>]
  /\ hs[1].result.value["RTO Office"] = Literal.Unknown_RTO

\* C19 (as claimed): a lookup of a string that is of none of the three
\* forms of the grammar returns the failure message, which is no mapping,
\* and raises nothing; a record is returned only for a string of the
\* grammar; "1234" gets the failure message.
C19_NoMatchIsNotFound ==
  hs[1].pc = "lookup_vehicle_info" =>
    LET x == clean_vehicle(hs[1].args)
    IN /\ hs[1].result.kind \in {"str", "dict"}
       /\ ~VehicleForm(x) => hs[1].result = Message("Invalid vehicle registration format")
       /\ hs[1].result.kind = "dict" => VehicleForm(x)
       /\ x = <<"1", "2", "3", "4">> => hs[1].result.kind = "str"

\* C20 (as claimed): for "9999999999" the basic-format strategy returns a
\* mapping whose Type is "Possibly Fake/Test Number".
C20_AllNinesFlagged ==
  (/\ hs[1].pc = "_trace_basic_info"
   /\ hs[1].args = <<"9", "9", "9", "9", "9", "9", "9", "9", "9", "9">>)
  => /\ hs[1].result.kind = "dict"
     /\ hs[1].result.value["Type"] = Literal.Fake

\* C20 (amended): the basic-format strategy returns a mapping whose Type is
\* "Possibly Fake/Test Number" exactly for a number ending in "0000",
\* "1111" or "2222" and "Regular Number" for any other; for "9999999999"
\* it is "Regular Number".
C20_SuffixRule ==
  hs[1].pc = "_trace_basic_info" =>
    LET s == hs[1].args
        n == Len(s)
        Flagged == /\ n >= 4
                   /\ \E c \in {"0", "1", "2"} : \A i \in (n - 3) .. n : s[i] = c
    IN /\ hs[1].result.kind = "dict"
       /\ hs[1].result.value["Number"] = s
       /\ hs[1].result.value["Type"] =
            IF Flagged THEN <<"P", "o", "s", "s", "i", "b", "l", "y", " ", "F", "a", "k", "e", "/",
                              "T", "e", "s", "t", " ", "N", "u", "m", "b", "e", "r">>
            ELSE <<"R", "e", "g", "u", "l", "a", "r", " ", "N", "u", "m", "b", "e", "r">>
       /\ s = <<"9", "9", "9", "9", "9", "9", "9", "9", "9", "9">> =>
            hs[1].result.value["Type"] = Literal.Regular

\* C20 witness: the basic-format strategy was applied to "9999999999" and
\* answered "Regular Number".
C20_Witness ==
  /\ hs[1].pc = "_trace_basic_info"
  /\ hs[1].args = <<"9", "9", "9", "9", "9", "9", "9", "9", "9", "9">>
  /\ hs[1].result.value["Type"] = Literal.Regular
  /\ hs[1].result.value["Validity"] = Literal.Valid_Length

\* C22: the heuristic strategy never raises and returns a non-empty mapping
\* for every normalized number, by the first rule that fits: a number that
\* starts with "+91", or is 10 characters long and starts with 6, 7, 8 or 9,
\* is in India, with the region bucket of the leading digit of the number
\* without "+91" (9, 8, 7, 6 have four different buckets; any other leading
\* character, or fewer than 10 characters left, gives "Unknown Region");
\* else one that starts with "+1" is in United States/Canada; else one that
\* starts with "+44" is in United Kingdom; else the country is Unknown.
C22_HeuristicClassification ==
  hs[1].pc = "_trace_truecaller_info" =>
    LET s == hs[1].args
        details == hs[1].result.value
        Starts(p) == Len(s) >= Len(p) /\ \A i \in DOMAIN p : s[i] = p[i]
        rest == remove(s, <<"+", "9", "1">>)
        bucket == ("9" :> Literal.North_West) @@ ("8" :> Literal.East_South)
                  @@ ("7" :> Literal.Central_West) @@ ("6" :> Literal.East)
        Indian == \/ Starts(<<"+", "9", "1">>)
                  \/ Len(s) = 10 /\ s[1] \in {"6", "7", "8", "9"}
    IN /\ hs[1].result.kind = "dict"
       /\ DOMAIN details # {}
       /\ details["Number"] = s
       /\ Cardinality({bucket[d] : d \in DOMAIN bucket} \cup {Literal.Unknown_Region}) = 5
       /\ IF Indian
            THEN /\ details["Country"] = Literal.India
                 /\ details["Region"] =
                      IF Len(rest) >= 10 /\ rest[1] \in DOMAIN bucket THEN bucket[rest[1]]
                      ELSE Literal.Unknown_Region
          ELSE /\ "Region" \notin DOMAIN details
               /\ details["Country"] =
                    IF Starts(<<"+", "1">>) THEN Literal.US_Canada
                    ELSE IF Starts(<<"+", "4", "4">>) THEN Literal.UK
                    ELSE Literal.Unknown

\* C22 witness: "+918777777777" is placed in India, bucket
\* "Eastern/Southern India", by the digit after its country code.
C22_Witness ==
  /\ hs[1].pc = "_trace_truecaller_info"
  /\ hs[1].args = <<"+", "9", "1", "8">> \o DigitRun(9)
  /\ hs[1].result.value["Country"] = Literal.India
  /\ hs[1].result.value["Region"] = Literal.East_South

\* C23: the basic-format strategy always succeeds and, for every normalized
\* number, reports Format "International" exactly when the number starts
\* with '+', Validity "Valid Length" exactly when the number without its
\* '+' characters has at least 10 characters, and Type "Possibly Fake/Test
\* Number" exactly when the number ends with 0000, 1111 or 2222 (otherwise
\* "Regular Number").
C23_BasicReport ==
  hs[1].pc = "_trace_basic_info" =>
    LET s == hs[1].args
        details == hs[1].result.value
        NotPlus(c) == c # "+"
        Ends(x) == Len(s) >= 4 /\ \A i \in 1 .. 4 : s[Len(s) - 4 + i] = x
    IN /\ _trace_basic_info(s).kind = "return"
       /\ hs[1].result.kind = "dict"
       /\ DOMAIN details = {"Number", "Format", "Validity", "Type"}
       /\ details["Format"] \in {Literal.International, Literal.Local}
       /\ details["Format"] = Literal.International <=> (s # <<>> /\ s[1] = "+")
       /\ details["Validity"] \in {Literal.Valid_Length, Literal.Invalid_Length}
       /\ details["Validity"] = Literal.Valid_Length <=> Len(SelectSeq(s, NotPlus)) >= 10
       /\ details["Type"] \in {Literal.Fake, Literal.Regular}
       /\ details["Type"] = Literal.Fake <=> (Ends("0") \/ Ends("1") \/ Ends("2"))

\* C23 witness: "+777770000", a '+' and nine digits, is reported as
\* International, of invalid length (nine characters without the '+') and
\* possibly fake.
C23_Witness ==
  /\ hs[1].pc = "_trace_basic_info"
  /\ hs[1].args = <<"+">> \o DigitRun(5) \o <<"0", "0", "0", "0">>
  /\ hs[1].result.value["Format"] = Literal.International
  /\ hs[1].result.value["Validity"] = Literal.Invalid_Length
  /\ hs[1].result.value["Type"] = Literal.Fake

\* the series of a string of the grammar: its letters after the region
SeriesOf(x) == SelectSeq(SubSeq(x, 3, Len(x)), IsUpperLetter)

\* C25: the vehicle category of a record is decided by the series alone: a
\* 1-letter series gives "Private Vehicle (Old Format)"; a 2-letter series
\* gives "Private Vehicle" when its first letter is in A-D or P-S,
\* "Taxi/Commercial" for E-H, "Two Wheeler" for T-W, "Special Vehicle" for
\* X-Z; for any other first letter (I-O) the record has no category field,
\* and the lookup still returns a record.
C25_CategoryFromSeries ==
  GrammarLookup =>
    LET x == clean_vehicle(hs[1].args)
        record == hs[1].result.value
        series == SeriesOf(x)
        first == CHOOSE i \in DOMAIN UpperSeq : UpperSeq[i] = series[1]
        category ==
          IF Len(series) = 1 THEN <<Literal.Private_Old>>
          ELSE IF first \in (1 .. 4) \cup (16 .. 19) THEN <<Literal.Private>>
          ELSE IF first \in 5 .. 8 THEN <<Literal.Taxi>>
          ELSE IF first \in 20 .. 23 THEN <<Literal.Two_Wheeler>>
          ELSE IF first \in 24 .. 26 THEN <<Literal.Special>>
          ELSE <<>>
    IN /\ hs[1].result.kind = "dict"
       /\ Len(series) \in 1 .. 2
       /\ record["Series"] = series
       /\ IF category = <<>> THEN "Vehicle Type" \notin DOMAIN record
          ELSE "Vehicle Type" \in DOMAIN record /\ record["Vehicle Type"] = category[1]
       /\ (Len(series) = 2 /\ first \in 9 .. 15) =>
            /\ "Vehicle Type" \notin DOMAIN record
            /\ {"Registration Number", "State", "RTO Office", "RTO Code", "Series", "Number"}
                 \subseteq DOMAIN record

\* C25 witness: "MH01OZ1234", whose series starts with O, was looked up and
\* got a record without category, although its second letter Z is in the
\* range of the special vehicles.
C25_Witness ==
  /\ GrammarLookup
  /\ hs[1].args = <<"M", "H", "0", "1", "O", "Z", "1", "2", "3", "4">>
  /\ hs[1].result.kind = "dict"
  /\ "Vehicle Type" \notin DOMAIN hs[1].result.value
  /\ hs[1].result.value["Series"] = <<"O", "Z">>
  /\ "Estimated Registration Year" \in DOMAIN hs[1].result.value

\* the serial of a string of the grammar: its digits after the series
SerialOf(x) == SubSeq(x, 3 + Len(SelectSeq(SubSeq(x, 3, 4), IsDigit)) + Len(SeriesOf(x)), Len(x))

\* C26: the age band is chosen by the serial read as an integer, leading
\* zeros ignored: below 1000 the earliest band, from 1000 to 4999 the
\* second, from 5000 to 8999 the third, from 9000 on the latest; every
\* record of a string of the grammar has exactly one of the four bands (the
\* integer parse cannot fail on such a string).
C26_AgeBand ==
  GrammarLookup =>
    LET x == clean_vehicle(hs[1].args)
        record == hs[1].result.value
        serial == SerialOf(x)
        D(i) == IF i <= Len(serial) THEN DigitValue(serial[Len(serial) - i + 1]) ELSE 0
        value == D(1) + 10 * D(2) + 100 * D(3) + 1000 * D(4)
        bands == {Literal.Before_2005, Literal.Y2005_2010, Literal.Y2010_2015, Literal.After_2015}
    IN /\ hs[1].result.kind = "dict"
       /\ Len(serial) \in 1 .. 4
       /\ record["Number"] = serial
       /\ Cardinality(bands) = 4
       /\ "Estimated Registration Year" \in DOMAIN record
       /\ record["Estimated Registration Year"] \in bands
       /\ record["Estimated Registration Year"] = Literal.Before_2005 <=> value < 1000
       /\ record["Estimated Registration Year"] = Literal.Y2005_2010 <=> (1000 <= value /\ value < 5000)
       /\ record["Estimated Registration Year"] = Literal.Y2010_2015 <=> (5000 <= value /\ value < 9000)
       /\ record["Estimated Registration Year"] = Literal.After_2015 <=> value >= 9000

\* C26 witness: "MH01AB0999" was looked up: its serial, with a leading zero,
\* reads as 999 and the record has the earliest band.
C26_Witness ==
  /\ GrammarLookup
  /\ hs[1].args = <<"M", "H", "0", "1", "A", "B", "0", "9", "9", "9">>
  /\ hs[1].result.value["Number"] = <<"0", "9", "9", "9">>
  /\ hs[1].result.value["Estimated Registration Year"] = Literal.Before_2005

\* C28: the validator and the resolver agree on vehicle strings.  Every
\* string validate_vehicle_number accepts is parsed by
\* _parse_vehicle_number after the same normalization, so that
\* lookup_vehicle_info returns a record for it, never the failure message;
\* and every string the resolver parses is accepted by the validator.
C28_ValidatorResolverAgree ==
  /\ hs[1].pc = "validate_vehicle_number" =>
       LET s == hs[1].args
       IN /\ hs[1].result.value => _parse_vehicle_number(clean_vehicle(s)).matched
          /\ hs[1].result.value => lookup_vehicle_info(s).kind = "dict"
          /\ _parse_vehicle_number(clean_vehicle(s)).matched => hs[1].result.value
  /\ hs[1].pc = "lookup_vehicle_info" =>
       LET s == hs[1].args
       IN /\ hs[1].result.kind = "dict" <=> validate_vehicle_number(s)
          /\ hs[1].result = Message("Invalid vehicle registration format")
               <=> ~validate_vehicle_number(s)

\* C28 witness: the validator accepted "mh-1ab1", which only its second
\* pattern and the resolver's third pattern match, and the resolver gives a
\* record for it.
C28_Witness ==
  /\ hs[1].pc = "validate_vehicle_number"
  /\ hs[1].args = <<"m", "h", "-", "1", "a", "b", "1">>
  /\ hs[1].result.value
  /\ ~VehicleMatch(clean_vehicle(hs[1].args), 2, 2, 1, 4).matched
  /\ _parse_vehicle_number(clean_vehicle(hs[1].args)).pattern = <<1, 2, 1, 4>>
  /\ lookup_vehicle_info(hs[1].args).kind = "dict"

\* C29: the outcome of the parse does not depend on which of the three
\* patterns matched: for every string, parsing with the list of patterns 1,
\* 2, 3 gives the same fields and office code, or the same failure, as
\* parsing with pattern 3 alone, a string having at most one split into
\* letters, digits, letters, digits; and so does the lookup.
C29_PatternIndependent ==
  hs[1].pc = "lookup_vehicle_info" =>
    LET x == clean_vehicle(hs[1].args)
        p == _parse_vehicle_number(x)
        match3 == VehicleMatch(x, 1, 2, 1, 4)
        p3 == IF match3.matched THEN ParsedInfo(x, match3) ELSE None
    IN /\ Cardinality(VehicleSplits(x, 1, 2, 1, 4)) <= 1
       /\ p.matched <=> p3.matched
       /\ p.matched =>
            /\ p.original = p3.original
            /\ p.state_code = p3.state_code
            /\ p.district_code = p3.district_code
            /\ p.series = p3.series
            /\ p.number = p3.number
            /\ p.rto_code = p3.rto_code
       /\ hs[1].result = IF p3.matched THEN Dict(_get_vehicle_details(p3))
                         ELSE Message("Invalid vehicle registration format")

\* C29 witness: "MH01A1", which the list parses by its second pattern, was
\* looked up; pattern 3 alone gives the same fields.
C29_Witness ==
  /\ hs[1].pc = "lookup_vehicle_info"
  /\ hs[1].args = <<"M", "H", "0", "1", "A", "1">>
  /\ _parse_vehicle_number(hs[1].args).pattern = <<2, 2, 1, 4>>
  /\ VehicleMatch(hs[1].args, 1, 2, 1, 4).g2 = <<"0", "1">>
  /\ hs[1].result.kind = "dict"
  /\ hs[1].result.value["Registration Region"] = <<"M", "H", "-", "0", "1">>
====
